---- MODULE Spec2Model ----
(***************************************************************************)
(* DuplicateCrawler: the hybrid scan (mixed.py), the exact-only scan       *)
(* (binary_hashing.py), the text utilities (text_utils.py) and the three   *)
(* earlier programs main.py, tfidf.py and tfdfi.py.                        *)
(*                                                                         *)
(* Texts, paths and file contents are sequences of integers: a text or a   *)
(* path is a sequence of Unicode code points, a file content a sequence of *)
(* bytes.  Python's None is the value None below.                          *)
(***************************************************************************)
EXTENDS Integers, Sequences, FiniteSets, TLC

VARIABLES
    roots,              \* the scan roots handed to the scan (a sequence of directory paths)
    fs,                 \* the files on disk: a set of indices into Catalogue
    drive_exists,       \* whether the directory binary_hashing.main scans exists on this machine
    pc,                 \* where the running program is
    root_idx,           \* scan_paths / find_duplicates: index of the next root of the for loop
    pending,            \* the paths os.walk still has to yield for the root being walked
    enumerated,         \* every path the walker has yielded so far, in order
    warnings,           \* roots reported by "[WARNING] Path not found"
    text_file_paths,    \* load_documents: paths of the corpus
    documents,          \* load_documents: normalised texts of the corpus
    binary_file_paths,  \* load_documents: paths for hashing
    hash_map,           \* find_duplicates_binary / find_duplicates: <<digest, paths>> in insertion order
    hashed,             \* paths handed to a hash function so far, in order
    all_results,        \* mixed.main: the result list
    report,             \* the rows save_to_csv has written (<<>> while nothing is saved)
    groups,             \* binary_hashing.find_duplicates: the returned dict, as <<digest, paths>> items
    fn_paths,           \* find_duplicates_tfidf called on its own: argument paths
    fn_documents,       \* ... argument documents
    fn_threshold,       \* ... argument threshold, in units of 10^-16
    fn_result,          \* ... its return value
    ex_file,            \* extract_text called on its own: the file its path names
    ex_calls,           \* ... the helpers it has called so far, each with what it returned
    ex_text,            \* ... its return value
    text_data_in,       \* text_clean called on its own: its argument
    cleaned_once,       \* ... its return value
    cleaned_twice       \* ... the return value of text_clean on that return value

vars == << roots, fs, drive_exists, pc, root_idx, pending, enumerated, warnings, text_file_paths,
           documents, binary_file_paths, hash_map, hashed, all_results, report, groups,
           fn_paths, fn_documents, fn_threshold, fn_result,
           ex_file, ex_calls, ex_text, text_data_in, cleaned_once, cleaned_twice >>

\* Python's None, where a text, a digest or a report is expected.
None == << -1 >>

(***************************************************************************)
(* Sequence helpers.                                                       *)
(***************************************************************************)
RECURSIVE Flatten(_)
Flatten(ss) == IF ss = << >> THEN << >> ELSE Head(ss) \o Flatten(Tail(ss))

Rep(c, n) == [i \in 1..n |-> c]

Range(s) == {s[i] : i \in 1..Len(s)}

\* x.endswith(suffix)
EndsWith(x, suffix) ==
    /\ Len(suffix) <= Len(x)
    /\ SubSeq(x, Len(x) - Len(suffix) + 1, Len(x)) = suffix

\* needle in haystack (substring test)
Contains(haystack, needle) ==
    \E i \in 0..(Len(haystack) - Len(needle)) :
        SubSeq(haystack, i + 1, i + Len(needle)) = needle

\* Python's comparison of two strings (or of the code points of two paths): a < b.
RECURSIVE StrLess(_, _)
StrLess(a, b) ==
    IF b = << >> THEN FALSE
    ELSE IF a = << >> THEN TRUE
    ELSE IF Head(a) # Head(b) THEN Head(a) < Head(b)
    ELSE StrLess(Tail(a), Tail(b))

(***************************************************************************)
(* text_utils.text_clean                                                   *)
(***************************************************************************)
\* unicodedata.normalize("NFKD", c) for one code point: the compatibility
\* decompositions of the code points the model's texts use; any other code
\* point of the model is its own decomposition.
NFKDChar(c) ==
    CASE c = 160 -> << 32 >>            \* NO-BREAK SPACE -> SPACE
      [] c = 170 -> << 97 >>            \* FEMININE ORDINAL INDICATOR -> a
      [] c = 201 -> << 69, 769 >>       \* E WITH ACUTE -> E, COMBINING ACUTE
      [] c = 233 -> << 101, 769 >>      \* e with acute -> e, COMBINING ACUTE
      [] c = 306 -> << 73, 74 >>        \* LIGATURE IJ -> I, J
      [] c = 307 -> << 105, 106 >>      \* ligature ij -> i, j
      [] c = 8482 -> << 84, 77 >>       \* TRADE MARK SIGN -> T, M
      [] OTHER -> << c >>

NFKD(t) == Flatten([i \in 1..Len(t) |-> NFKDChar(t[i])])

\* str.lower() for one code point (ASCII and Latin-1 capitals, LIGATURE IJ).
LowerChar(c) ==
    IF (c >= 65 /\ c <= 90) \/ (c >= 192 /\ c <= 222 /\ c # 215) THEN c + 32
    ELSE IF c = 306 THEN 307
    ELSE c

Lower(t) == [i \in 1..Len(t) |-> LowerChar(t[i])]

\* What \s matches, among the code points below 2048.
IsSpace(c) == c \in {9, 10, 11, 12, 13, 28, 29, 30, 31, 32, 133, 160}

\* re.sub(r"\s+", " ", t)
RECURSIVE CollapseSpaces(_)
CollapseSpaces(t) ==
    IF t = << >> THEN << >>
    ELSE IF IsSpace(Head(t))
         THEN IF Len(t) > 1 /\ IsSpace(t[2])
              THEN CollapseSpaces(Tail(t))
              ELSE << 32 >> \o CollapseSpaces(Tail(t))
         ELSE << Head(t) >> \o CollapseSpaces(Tail(t))

\* str.strip()
RECURSIVE LStrip(_)
LStrip(t) == IF t # << >> /\ IsSpace(Head(t)) THEN LStrip(Tail(t)) ELSE t

RECURSIVE RStrip(_)
RStrip(t) ==
    IF t # << >> /\ IsSpace(t[Len(t)]) THEN RStrip(SubSeq(t, 1, Len(t) - 1)) ELSE t

Strip(t) == RStrip(LStrip(t))

\* text_clean as it would be with the lowercasing before the decomposition.
text_clean_lower_first(text_data) ==
    IF text_data = None \/ text_data = << >> THEN << >>
    ELSE Strip(CollapseSpaces(NFKD(Lower(text_data))))

text_clean(text_data) ==
    IF text_data = None \/ text_data = << >> THEN << >>
    ELSE Strip(CollapseSpaces(Lower(NFKD(text_data))))

(***************************************************************************)
(* Reading and writing UTF-8: open(path, "r", errors="ignore",             *)
(* encoding="utf-8").read() and str.encode("utf-8"), for code points below *)
(* 2048 (one- and two-byte sequences).                                     *)
(***************************************************************************)
IsContinuation(b) == b >= 128 /\ b <= 191

IsLead2(b) == b >= 194 /\ b <= 223

\* bytes.decode("utf-8", "ignore"): a byte that starts no valid sequence is dropped.
RECURSIVE DecodeUtf8(_)
DecodeUtf8(bs) ==
    IF bs = << >> THEN << >>
    ELSE IF Head(bs) < 128 THEN << Head(bs) >> \o DecodeUtf8(Tail(bs))
    ELSE IF IsLead2(Head(bs)) /\ Len(bs) > 1 /\ IsContinuation(bs[2])
         THEN << (Head(bs) - 192) * 64 + (bs[2] - 128) >> \o DecodeUtf8(Tail(Tail(bs)))
    ELSE DecodeUtf8(Tail(bs))

\* Text mode's universal newlines: "\r\n" and "\r" are read as "\n".
RECURSIVE TranslateNewlines(_)
TranslateNewlines(t) ==
    IF t = << >> THEN << >>
    ELSE IF Head(t) = 13
         THEN IF Len(t) > 1 /\ t[2] = 10
              THEN << 10 >> \o TranslateNewlines(Tail(Tail(t)))
              ELSE << 10 >> \o TranslateNewlines(Tail(t))
         ELSE << Head(t) >> \o TranslateNewlines(Tail(t))

ReadText(bs) == TranslateNewlines(DecodeUtf8(bs))

EncodeChar(c) == IF c < 128 THEN << c >> ELSE << 192 + (c \div 64), 128 + (c % 64) >>

EncodeUtf8(t) == Flatten([i \in 1..Len(t) |-> EncodeChar(t[i])])

(***************************************************************************)
(* Paths.                                                                  *)
(***************************************************************************)
Slash == << 47 >>

\* Path(dirpath) / name, as str
JoinPath(dir, name) == dir \o Slash \o name

\* The last component of a path.
RECURSIVE Basename(_)
Basename(p) ==
    IF \E i \in 1..Len(p) : p[i] = 47
    THEN Basename(Tail(p))
    ELSE p

\* Path.suffix: the last component from its last dot, unless that dot leads or ends it.
Suffix(p) ==
    LET name == Basename(p)
        dots == {i \in 1..Len(name) : name[i] = 46}
    IN  IF dots = {} THEN << >>
        ELSE LET i == CHOOSE d \in dots : \A e \in dots : e <= d
             IN  IF i > 1 /\ i < Len(name) THEN SubSeq(name, i, Len(name)) ELSE << >>

ExtTxt == << 46, 116, 120, 116 >>          \* ".txt"
ExtPdf == << 46, 112, 100, 102 >>          \* ".pdf"
ExtDocx == << 46, 100, 111, 99, 120 >>     \* ".docx"

\* ['.txt', '.pdf', '.docx']
TextSuffixes == {ExtTxt, ExtPdf, ExtDocx}

(***************************************************************************)
(* The file system under scan.  A file is a record:                        *)
(*   dir, name   where it is; its path is dir/name                         *)
(*   bytes       its raw content                                           *)
(*   readable    open() succeeds                                           *)
(*   parses      (.pdf) PDFParser/PDFDocument accept it; (.docx) Document  *)
(*               accepts it                                                *)
(*   producer, creator   (.pdf) the metadata fields, as bytes              *)
(*   renders     (.pdf) the first page can be interpreted                  *)
(*   vector_ops  (.pdf) paint_path calls on the first page                 *)
(*   extracts    (.pdf) pdfminer's extract_text succeeds                   *)
(*   body        (.pdf) the text pdfminer extracts;                        *)
(*   paragraphs  (.docx) the paragraph texts                               *)
(***************************************************************************)
DirA == << 97 >>                       \* "a"
DirAS == << 97, 47, 115 >>             \* "a/s", a subdirectory of "a"
DirB == << 98 >>                       \* "b"
DirMissing == << 109 >>                \* "m": no such directory

\* "C:/Users/janko/Downloads", the directory binary_hashing.main, main.main and
\* tfdfi.main scan
Downloads ==
    << 67, 58, 47, 85, 115, 101, 114, 115, 47, 106, 97, 110, 107, 111, 47,
       68, 111, 119, 110, 108, 111, 97, 100, 115 >>

\* The directories that exist whatever the machine, in os.walk's top-down
\* order.
AllDirs == << DirA, DirAS, DirB >>

Space == << 32 >>

WordA == Rep(97, 13)
WordB == Rep(98, 13)
WordC == Rep(99, 13)

\* 55 characters: four times the same word.
TextAAAA == WordA \o Space \o WordA \o Space \o WordA \o Space \o WordA
\* 69 characters: TextAAAA and one more word.
TextAAAAB == TextAAAA \o Space \o WordB
\* 55 characters, no word in common with the two above.
TextCCCC == WordC \o Space \o WordC \o Space \o WordC \o Space \o WordC
\* TextAAAA in capitals, with other whitespace around and between the words.
RawAAAA ==
    << 32 >> \o Rep(65, 13) \o << 9, 10 >> \o Rep(65, 13) \o << 13, 10 >>
        \o Rep(65, 13) \o << 32, 32 >> \o Rep(65, 13) \o << 10 >>
\* 50 characters once normalised: 16 + 1 + 16 + 1 + 16, read from 52 bytes.
Raw50 == Rep(100, 16) \o << 10 >> \o Rep(100, 16) \o << 32 >> \o Rep(100, 16) \o << 10, 10 >>
\* 51 characters once normalised: 16 + 1 + 16 + 1 + 17.
Raw51 == Rep(101, 16) \o << 10 >> \o Rep(101, 16) \o << 32 >> \o Rep(101, 17)
\* 51 characters, one-letter words only: "x x x ... x".
TextLetters == Flatten([i \in 1..25 |-> << 120, 32 >>]) \o << 120 >>

BlobX == << 137, 80, 78, 71 >>
BlobY == << 137, 80, 78, 72 >>

File(dir, name, bytes) ==
    [dir |-> dir, name |-> name, bytes |-> bytes, readable |-> TRUE, parses |-> TRUE,
     producer |-> << >>, creator |-> << >>, renders |-> TRUE, vector_ops |-> 0,
     extracts |-> TRUE, body |-> << >>, paragraphs |-> << >>]

\* No file: where a file is expected and there is none.
NoFile == File(<< >>, << >>, << >>)

\* Every file the model's disks can hold.  The files of one directory are
\* listed (os.walk's filenames) in the order they have here.
Catalogue ==
    << \* 1  a/t.txt: a long text
       File(DirA, << 116, 46, 116, 120, 116 >>, EncodeUtf8(TextAAAAB)),
       \* 2  a/q.bin
       File(DirA, << 113, 46, 98, 105, 110 >>, BlobX),
       \* 3  a/h.txt: "Hi"
       File(DirA, << 104, 46, 116, 120, 116 >>, << 72, 105 >>),
       \* 4  a/s/r.txt: normalises to TextAAAA
       File(DirAS, << 114, 46, 116, 120, 116 >>, RawAAAA),
       \* 5  a/s/e.txt: empty
       File(DirAS, << 101, 46, 116, 120, 116 >>, << >>),
       \* 6  b/z.bin: the bytes of a/q.bin
       File(DirB, << 122, 46, 98, 105, 110 >>, BlobX),
       \* 7  b/y.bin: the bytes of a/q.bin, listed after z.bin
       File(DirB, << 121, 46, 98, 105, 110 >>, BlobX),
       \* 8  b/h.txt: " hi\n", and one invalid byte
       File(DirB, << 104, 46, 116, 120, 116 >>, << 32, 104, 255, 105, 10 >>),
       \* 9  b/k.pdf: produced by "AutoCAD 2020", its text is TextAAAA
       [File(DirB, << 107, 46, 112, 100, 102 >>, BlobY) EXCEPT
            !.producer = << 65, 117, 116, 111, 67, 65, 68, 32, 50, 48, 50, 48 >>,
            !.body = TextAAAA],
       \* 10 b/g.pdf: a prose PDF, its text is TextAAAA
       [File(DirB, << 103, 46, 112, 100, 102 >>, << 37, 80, 68, 70 >>) EXCEPT
            !.producer = << 87, 111, 114, 100 >>, !.vector_ops = 500,
            !.body = TextAAAA \o << 12 >>],
       \* 11 b/w.bin: cannot be opened
       [File(DirB, << 119, 46, 98, 105, 110 >>, BlobX) EXCEPT !.readable = FALSE],
       \* 12 b/n.txt: one-letter words only
       File(DirB, << 110, 46, 116, 120, 116 >>, EncodeUtf8(TextLetters)),
       \* 13 b/f.txt: 50 characters once normalised
       File(DirB, << 102, 46, 116, 120, 116 >>, Raw50),
       \* 14 b/u.TXT: a long text under a capital extension
       File(DirB, << 117, 46, 84, 88, 84 >>, EncodeUtf8(TextCCCC)),
       \* 15 b/v.pdf: 501 drawing instructions on the first page
       [File(DirB, << 118, 46, 112, 100, 102 >>, << 37, 80, 68, 70, 49 >>) EXCEPT
            !.vector_ops = 501, !.body = TextCCCC],
       \* 16 b/x.pdf: not a PDF
       [File(DirB, << 120, 46, 112, 100, 102 >>, << 0 >>) EXCEPT !.parses = FALSE],
       \* 17 b/d.docx: two paragraphs
       [File(DirB, << 100, 46, 100, 111, 99, 120 >>, << 80, 75 >>) EXCEPT
            !.paragraphs = << WordC \o Space \o WordC, WordC \o Space \o WordC >>],
       \* 18 b/c.txt: a long text, 51 characters once normalised
       File(DirB, << 99, 46, 116, 120, 116 >>, Raw51),
       \* 19 C:/Users/janko/Downloads/z.bin
       File(Downloads, << 122, 46, 98, 105, 110 >>, BlobX),
       \* 20 C:/Users/janko/Downloads/y.bin: the bytes of z.bin
       File(Downloads, << 121, 46, 98, 105, 110 >>, BlobX),
       \* 21 C:/Users/janko/Downloads/v.bin: other bytes
       File(Downloads, << 118, 46, 98, 105, 110 >>, BlobY),
       \* 22 C:/Users/janko/Downloads/t.txt: a long text
       File(Downloads, << 116, 46, 116, 120, 116 >>, EncodeUtf8(TextAAAAB)),
       \* 23 C:/Users/janko/Downloads/r.txt: normalises to TextAAAA
       File(Downloads, << 114, 46, 116, 120, 116 >>, RawAAAA),
       \* 24 C:/Users/janko/Downloads/u.TXT: a long text under a capital extension
       File(Downloads, << 117, 46, 84, 88, 84 >>, EncodeUtf8(TextCCCC)),
       \* 25 C:/Users/janko/Downloads/k.pdf: produced by "AutoCAD 2020", its text is TextAAAA
       [File(Downloads, << 107, 46, 112, 100, 102 >>, BlobY) EXCEPT
            !.producer = << 65, 117, 116, 111, 67, 65, 68, 32, 50, 48, 50, 48 >>,
            !.body = TextAAAA],
       \* 26 C:/Users/janko/Downloads/s.txt: TextAAAA, then twice "the"
       File(Downloads, << 115, 46, 116, 120, 116 >>,
            EncodeUtf8(TextAAAA \o << 32, 116, 104, 101, 32, 116, 104, 101 >>)),
       \* 27 C:/Users/janko/Downloads/o.txt: thirteen times "the"
       File(Downloads, << 111, 46, 116, 120, 116 >>,
            Flatten([i \in 1..13 |-> << 116, 104, 101, 32 >>])),
       \* 28 C:/Users/janko/Downloads/p.txt: thirteen times "and"
       File(Downloads, << 112, 46, 116, 120, 116 >>,
            Flatten([i \in 1..13 |-> << 97, 110, 100, 32 >>]))
    >>

FileIds == 1..Len(Catalogue)

PathOf(f) == JoinPath(Catalogue[f].dir, Catalogue[f].name)

\* The file a path names (paths are unique in the catalogue).
FileAt(path) == Catalogue[CHOOSE f \in FileIds : PathOf(f) = path]

\* Path(root).exists()
PathExists(root) == root \in Range(AllDirs)

\* dirpath is root or lies below it
IsUnder(dirpath, root) ==
    \/ dirpath = root
    \/ /\ Len(dirpath) > Len(root)
       /\ SubSeq(dirpath, 1, Len(root) + 1) = root \o Slash

\* The ids in a set, as a sequence in increasing order.
RECURSIVE SortedIds(_)
SortedIds(S) ==
    IF S = {} THEN << >>
    ELSE LET m == CHOOSE x \in S : \A y \in S : x <= y
         IN  << m >> \o SortedIds(S \ {m})

\* The filenames os.walk lists for one directory of the disk `disk`, as paths.
\* os.walk yields them in the order the directory holds its entries, which is
\* not the order of the names: here it is the order of the Catalogue.
Listing(disk, dirpath) ==
    LET ids == SortedIds({f \in disk : Catalogue[f].dir = dirpath})
    IN  [i \in 1..Len(ids) |-> PathOf(ids[i])]

\* os.walk(root): every file under root, directory by directory, top-down.
\* A root that does not exist yields nothing.
Walk(disk, root) ==
    LET dirs == AllDirs \o << Downloads >>
    IN  Flatten([i \in 1..Len(dirs) |->
                    IF IsUnder(dirs[i], root) THEN Listing(disk, dirs[i]) ELSE << >>])

(***************************************************************************)
(* text_utils: the CAD heuristics and extract_text.                        *)
(***************************************************************************)
\* is_complex_vector_file's default threshold
VectorThreshold == 500

cad_signatures ==
    { << 97, 117, 116, 111, 99, 97, 100 >>,                              \* autocad
      << 98, 101, 110, 116, 108, 101, 121 >>,                            \* bentley
      << 109, 105, 99, 114, 111, 115, 116, 97, 116, 105, 111, 110 >>,    \* microstation
      << 114, 101, 118, 105, 116 >>,                                     \* revit
      << 98, 108, 117, 101, 98, 101, 97, 109 >>,                         \* bluebeam
      << 103, 114, 97, 112, 104, 105, 115, 111, 102, 116 >> }            \* graphisoft

\* val.decode('utf-8', 'ignore').lower()
decode_meta(val) == Lower(DecodeUtf8(val))

\* is_created_by_cad_software on the file f: open, PDFParser and PDFDocument
\* raise on a file that cannot be opened or is no PDF.
CadCheckRaises(f) == ~f.readable \/ ~f.parses

\* The value of its except branch: return True.
CadCheckOnError == TRUE

\* TRUE where the code returns True; FALSE where it returns None (its bare return).
CadSoftwareCheck(f) ==
    IF CadCheckRaises(f) THEN CadCheckOnError
    ELSE LET producer == Lower(decode_meta(f.producer))
             creator == Lower(decode_meta(f.creator))
         IN  \/ \E sig \in cad_signatures : Contains(producer, sig)
             \/ \E sig \in cad_signatures : Contains(creator, sig)

is_created_by_cad_software(path) == CadSoftwareCheck(FileAt(path))

\* is_complex_vector_file on the file f: besides open and the parser, the
\* interpreter raises on a first page it cannot process.
VectorCheckRaises(f) == ~f.readable \/ ~f.parses \/ ~f.renders

\* The value of its except branch as it would be with "return False".
VectorCheckOnErrorFalse == FALSE

\* The value of its except branch: return True.
VectorCheckOnError == TRUE

VectorFileCheck(f, threshold) ==
    IF VectorCheckRaises(f) THEN VectorCheckOnError
    ELSE f.vector_ops > threshold

is_complex_vector_file(path, threshold) == VectorFileCheck(FileAt(path), threshold)

\* pdf_text(path_str): the text of the PDF; None stands for the exception it
\* raises on a file it cannot read, which extract_text turns into None.
PdfText(f) == IF f.readable /\ f.parses /\ f.extracts THEN f.body ELSE None

\* "\n".join(p.text for p in doc.paragraphs)
RECURSIVE JoinLines(_)
JoinLines(ps) ==
    IF ps = << >> THEN << >>
    ELSE IF Len(ps) = 1 THEN ps[1]
    ELSE ps[1] \o << 10 >> \o JoinLines(Tail(ps))

\* extract_text on a path that names the file f: the text, or None.
ExtractText(path, f) ==
    IF EndsWith(path, ExtTxt)
    THEN IF f.readable THEN ReadText(f.bytes) ELSE None
    ELSE IF EndsWith(path, ExtPdf)
    THEN IF CadSoftwareCheck(f) THEN None
         ELSE IF VectorFileCheck(f, VectorThreshold) THEN None
         ELSE PdfText(f)
    ELSE IF EndsWith(path, ExtDocx)
    THEN IF f.readable /\ f.parses THEN JoinLines(f.paragraphs) ELSE None
    ELSE None

\* The text, or None.
extract_text(path) == ExtractText(path, FileAt(path))

\* extract_text as main.py and tfdfi.py define it for themselves: the same
\* without the two checks on a PDF.
ExtractTextUnchecked(path) ==
    LET f == FileAt(path)
    IN  IF EndsWith(path, ExtTxt)
        THEN IF f.readable THEN ReadText(f.bytes) ELSE None
        ELSE IF EndsWith(path, ExtPdf)
        THEN PdfText(f)
        ELSE IF EndsWith(path, ExtDocx)
        THEN IF f.readable /\ f.parses THEN JoinLines(f.paragraphs) ELSE None
        ELSE None

(***************************************************************************)
(* Hashing.  SHA-256 is taken to be free of collisions: a digest is the    *)
(* marker 256 followed by the bytes that were hashed.  A digest is never   *)
(* None and never empty, so it is always true in a condition.              *)
(***************************************************************************)
Sha256(bs) == << 256 >> \o bs

\* load_documents' gate: len(cleaned) > 50
MinContentLen == 50

\* a value used as the condition of an if: not None, not empty
Truthy(v) == v # None /\ v # << >>

\* mixed.hash_binary and binary_hashing.hash_binary: the digest of the file's
\* bytes, or None when the file cannot be read.
hash_binary(path) ==
    IF FileAt(path).readable THEN Sha256(FileAt(path).bytes) ELSE None

\* binary_hashing.hash_text
hash_text(text) == Sha256(EncodeUtf8(text_clean(text)))

\* hash_file as it would be with the minimum-content gate: a text shorter than
\* the gate is not hashed, the file's bytes are.
hash_file_gated(path) ==
    LET text == extract_text(path)
    IN  IF text # None /\ Len(text_clean(text)) >= MinContentLen
        THEN hash_text(text)
        ELSE hash_binary(path)

\* binary_hashing.hash_file
hash_file(path) ==
    LET text == extract_text(path)
    IN  IF text # None THEN hash_text(text) ELSE hash_binary(path)

(***************************************************************************)
(* TfidfVectorizer(stop_words=None).fit_transform and cosine_similarity,   *)
(* in whole numbers: a similarity score is a number of units of 10^-16,    *)
(* the cosine of the documents' rows of tf-idf weights.  The vectorizer's  *)
(* own l2 normalisation of a row does not change a cosine.                 *)
(***************************************************************************)
\* \w, among the code points the model's texts use
IsWordChar(c) ==
    \/ c >= 48 /\ c <= 57
    \/ c >= 65 /\ c <= 90
    \/ c = 95
    \/ c >= 97 /\ c <= 122
    \/ c \in {170, 181, 186}
    \/ c >= 192 /\ c <= 255 /\ c # 215 /\ c # 247

\* The end of the run of word characters of t that starts at i.
WordRunEnd(t, i) ==
    CHOOSE j \in i..Len(t) : /\ \A k \in i..j : IsWordChar(t[k])
                             /\ j = Len(t) \/ ~IsWordChar(t[j + 1])

\* token_pattern (?u)\b\w\w+\b: the runs of two or more word characters of
\* t, in the order of the text
WordRuns(t) ==
    LET starts == {i \in 1..Len(t) : /\ IsWordChar(t[i])
                                     /\ i = 1 \/ ~IsWordChar(t[i - 1])
                                     /\ i < Len(t) /\ IsWordChar(t[i + 1])}
        Nth(k) == CHOOSE i \in starts : Cardinality({j \in starts : j < i}) = k - 1
    IN  [k \in 1..Cardinality(starts) |->
            LET i == Nth(k) IN SubSeq(t, i, WordRunEnd(t, i))]

\* the analyzer: lowercase, then tokenise
Tokens(doc) == WordRuns(Lower(doc))

\* TfidfVectorizer(stop_words='english'): scikit-learn's list of English stop
\* words, in alphabetical order from "a" to "yourselves".
StopWords ==
    { << 97 >>, << 97, 98, 111, 117, 116 >>, << 97, 98, 111, 118, 101 >>,
      << 97, 99, 114, 111, 115, 115 >>, << 97, 102, 116, 101, 114 >>,
      << 97, 102, 116, 101, 114, 119, 97, 114, 100, 115 >>, << 97, 103, 97, 105, 110 >>,
      << 97, 103, 97, 105, 110, 115, 116 >>, << 97, 108, 108 >>,
      << 97, 108, 109, 111, 115, 116 >>, << 97, 108, 111, 110, 101 >>,
      << 97, 108, 111, 110, 103 >>, << 97, 108, 114, 101, 97, 100, 121 >>,
      << 97, 108, 115, 111 >>, << 97, 108, 116, 104, 111, 117, 103, 104 >>,
      << 97, 108, 119, 97, 121, 115 >>, << 97, 109 >>, << 97, 109, 111, 110, 103 >>,
      << 97, 109, 111, 110, 103, 115, 116 >>, << 97, 109, 111, 117, 110, 103, 115, 116 >>,
      << 97, 109, 111, 117, 110, 116 >>, << 97, 110 >>, << 97, 110, 100 >>,
      << 97, 110, 111, 116, 104, 101, 114 >>, << 97, 110, 121 >>,
      << 97, 110, 121, 104, 111, 119 >>, << 97, 110, 121, 111, 110, 101 >>,
      << 97, 110, 121, 116, 104, 105, 110, 103 >>, << 97, 110, 121, 119, 97, 121 >>,
      << 97, 110, 121, 119, 104, 101, 114, 101 >>, << 97, 114, 101 >>,
      << 97, 114, 111, 117, 110, 100 >>, << 97, 115 >>, << 97, 116 >>, << 98, 97, 99, 107 >>,
      << 98, 101 >>, << 98, 101, 99, 97, 109, 101 >>, << 98, 101, 99, 97, 117, 115, 101 >>,
      << 98, 101, 99, 111, 109, 101 >>, << 98, 101, 99, 111, 109, 101, 115 >>,
      << 98, 101, 99, 111, 109, 105, 110, 103 >>, << 98, 101, 101, 110 >>,
      << 98, 101, 102, 111, 114, 101 >>, << 98, 101, 102, 111, 114, 101, 104, 97, 110, 100 >>,
      << 98, 101, 104, 105, 110, 100 >>, << 98, 101, 105, 110, 103 >>,
      << 98, 101, 108, 111, 119 >>, << 98, 101, 115, 105, 100, 101 >>,
      << 98, 101, 115, 105, 100, 101, 115 >>, << 98, 101, 116, 119, 101, 101, 110 >>,
      << 98, 101, 121, 111, 110, 100 >>, << 98, 105, 108, 108 >>, << 98, 111, 116, 104 >>,
      << 98, 111, 116, 116, 111, 109 >>, << 98, 117, 116 >>, << 98, 121 >>,
      << 99, 97, 108, 108 >>, << 99, 97, 110 >>, << 99, 97, 110, 110, 111, 116 >>,
      << 99, 97, 110, 116 >>, << 99, 111 >>, << 99, 111, 110 >>, << 99, 111, 117, 108, 100 >>,
      << 99, 111, 117, 108, 100, 110, 116 >>, << 99, 114, 121 >>, << 100, 101 >>,
      << 100, 101, 115, 99, 114, 105, 98, 101 >>, << 100, 101, 116, 97, 105, 108 >>,
      << 100, 111 >>, << 100, 111, 110, 101 >>, << 100, 111, 119, 110 >>, << 100, 117, 101 >>,
      << 100, 117, 114, 105, 110, 103 >>, << 101, 97, 99, 104 >>, << 101, 103 >>,
      << 101, 105, 103, 104, 116 >>, << 101, 105, 116, 104, 101, 114 >>,
      << 101, 108, 101, 118, 101, 110 >>, << 101, 108, 115, 101 >>,
      << 101, 108, 115, 101, 119, 104, 101, 114, 101 >>, << 101, 109, 112, 116, 121 >>,
      << 101, 110, 111, 117, 103, 104 >>, << 101, 116, 99 >>, << 101, 118, 101, 110 >>,
      << 101, 118, 101, 114 >>, << 101, 118, 101, 114, 121 >>,
      << 101, 118, 101, 114, 121, 111, 110, 101 >>,
      << 101, 118, 101, 114, 121, 116, 104, 105, 110, 103 >>,
      << 101, 118, 101, 114, 121, 119, 104, 101, 114, 101 >>,
      << 101, 120, 99, 101, 112, 116 >>, << 102, 101, 119 >>,
      << 102, 105, 102, 116, 101, 101, 110 >>, << 102, 105, 102, 116, 121 >>,
      << 102, 105, 108, 108 >>, << 102, 105, 110, 100 >>, << 102, 105, 114, 101 >>,
      << 102, 105, 114, 115, 116 >>, << 102, 105, 118, 101 >>, << 102, 111, 114 >>,
      << 102, 111, 114, 109, 101, 114 >>, << 102, 111, 114, 109, 101, 114, 108, 121 >>,
      << 102, 111, 114, 116, 121 >>, << 102, 111, 117, 110, 100 >>, << 102, 111, 117, 114 >>,
      << 102, 114, 111, 109 >>, << 102, 114, 111, 110, 116 >>, << 102, 117, 108, 108 >>,
      << 102, 117, 114, 116, 104, 101, 114 >>, << 103, 101, 116 >>, << 103, 105, 118, 101 >>,
      << 103, 111 >>, << 104, 97, 100 >>, << 104, 97, 115 >>, << 104, 97, 115, 110, 116 >>,
      << 104, 97, 118, 101 >>, << 104, 101 >>, << 104, 101, 110, 99, 101 >>,
      << 104, 101, 114 >>, << 104, 101, 114, 101 >>,
      << 104, 101, 114, 101, 97, 102, 116, 101, 114 >>, << 104, 101, 114, 101, 98, 121 >>,
      << 104, 101, 114, 101, 105, 110 >>, << 104, 101, 114, 101, 117, 112, 111, 110 >>,
      << 104, 101, 114, 115 >>, << 104, 101, 114, 115, 101, 108, 102 >>, << 104, 105, 109 >>,
      << 104, 105, 109, 115, 101, 108, 102 >>, << 104, 105, 115 >>, << 104, 111, 119 >>,
      << 104, 111, 119, 101, 118, 101, 114 >>, << 104, 117, 110, 100, 114, 101, 100 >>,
      << 105 >>, << 105, 101 >>, << 105, 102 >>, << 105, 110 >>, << 105, 110, 99 >>,
      << 105, 110, 100, 101, 101, 100 >>, << 105, 110, 116, 101, 114, 101, 115, 116 >>,
      << 105, 110, 116, 111 >>, << 105, 115 >>, << 105, 116 >>, << 105, 116, 115 >>,
      << 105, 116, 115, 101, 108, 102 >>, << 107, 101, 101, 112 >>, << 108, 97, 115, 116 >>,
      << 108, 97, 116, 116, 101, 114 >>, << 108, 97, 116, 116, 101, 114, 108, 121 >>,
      << 108, 101, 97, 115, 116 >>, << 108, 101, 115, 115 >>, << 108, 116, 100 >>,
      << 109, 97, 100, 101 >>, << 109, 97, 110, 121 >>, << 109, 97, 121 >>, << 109, 101 >>,
      << 109, 101, 97, 110, 119, 104, 105, 108, 101 >>, << 109, 105, 103, 104, 116 >>,
      << 109, 105, 108, 108 >>, << 109, 105, 110, 101 >>, << 109, 111, 114, 101 >>,
      << 109, 111, 114, 101, 111, 118, 101, 114 >>, << 109, 111, 115, 116 >>,
      << 109, 111, 115, 116, 108, 121 >>, << 109, 111, 118, 101 >>, << 109, 117, 99, 104 >>,
      << 109, 117, 115, 116 >>, << 109, 121 >>, << 109, 121, 115, 101, 108, 102 >>,
      << 110, 97, 109, 101 >>, << 110, 97, 109, 101, 108, 121 >>,
      << 110, 101, 105, 116, 104, 101, 114 >>, << 110, 101, 118, 101, 114 >>,
      << 110, 101, 118, 101, 114, 116, 104, 101, 108, 101, 115, 115 >>,
      << 110, 101, 120, 116 >>, << 110, 105, 110, 101 >>, << 110, 111 >>,
      << 110, 111, 98, 111, 100, 121 >>, << 110, 111, 110, 101 >>,
      << 110, 111, 111, 110, 101 >>, << 110, 111, 114 >>, << 110, 111, 116 >>,
      << 110, 111, 116, 104, 105, 110, 103 >>, << 110, 111, 119 >>,
      << 110, 111, 119, 104, 101, 114, 101 >>, << 111, 102 >>, << 111, 102, 102 >>,
      << 111, 102, 116, 101, 110 >>, << 111, 110 >>, << 111, 110, 99, 101 >>,
      << 111, 110, 101 >>, << 111, 110, 108, 121 >>, << 111, 110, 116, 111 >>, << 111, 114 >>,
      << 111, 116, 104, 101, 114 >>, << 111, 116, 104, 101, 114, 115 >>,
      << 111, 116, 104, 101, 114, 119, 105, 115, 101 >>, << 111, 117, 114 >>,
      << 111, 117, 114, 115 >>, << 111, 117, 114, 115, 101, 108, 118, 101, 115 >>,
      << 111, 117, 116 >>, << 111, 118, 101, 114 >>, << 111, 119, 110 >>,
      << 112, 97, 114, 116 >>, << 112, 101, 114 >>, << 112, 101, 114, 104, 97, 112, 115 >>,
      << 112, 108, 101, 97, 115, 101 >>, << 112, 117, 116 >>,
      << 114, 97, 116, 104, 101, 114 >>, << 114, 101 >>, << 115, 97, 109, 101 >>,
      << 115, 101, 101 >>, << 115, 101, 101, 109 >>, << 115, 101, 101, 109, 101, 100 >>,
      << 115, 101, 101, 109, 105, 110, 103 >>, << 115, 101, 101, 109, 115 >>,
      << 115, 101, 114, 105, 111, 117, 115 >>, << 115, 101, 118, 101, 114, 97, 108 >>,
      << 115, 104, 101 >>, << 115, 104, 111, 117, 108, 100 >>, << 115, 104, 111, 119 >>,
      << 115, 105, 100, 101 >>, << 115, 105, 110, 99, 101 >>,
      << 115, 105, 110, 99, 101, 114, 101 >>, << 115, 105, 120 >>,
      << 115, 105, 120, 116, 121 >>, << 115, 111 >>, << 115, 111, 109, 101 >>,
      << 115, 111, 109, 101, 104, 111, 119 >>, << 115, 111, 109, 101, 111, 110, 101 >>,
      << 115, 111, 109, 101, 116, 104, 105, 110, 103 >>,
      << 115, 111, 109, 101, 116, 105, 109, 101 >>,
      << 115, 111, 109, 101, 116, 105, 109, 101, 115 >>,
      << 115, 111, 109, 101, 119, 104, 101, 114, 101 >>, << 115, 116, 105, 108, 108 >>,
      << 115, 117, 99, 104 >>, << 115, 121, 115, 116, 101, 109 >>, << 116, 97, 107, 101 >>,
      << 116, 101, 110 >>, << 116, 104, 97, 110 >>, << 116, 104, 97, 116 >>,
      << 116, 104, 101 >>, << 116, 104, 101, 105, 114 >>, << 116, 104, 101, 109 >>,
      << 116, 104, 101, 109, 115, 101, 108, 118, 101, 115 >>, << 116, 104, 101, 110 >>,
      << 116, 104, 101, 110, 99, 101 >>, << 116, 104, 101, 114, 101 >>,
      << 116, 104, 101, 114, 101, 97, 102, 116, 101, 114 >>,
      << 116, 104, 101, 114, 101, 98, 121 >>,
      << 116, 104, 101, 114, 101, 102, 111, 114, 101 >>,
      << 116, 104, 101, 114, 101, 105, 110 >>,
      << 116, 104, 101, 114, 101, 117, 112, 111, 110 >>, << 116, 104, 101, 115, 101 >>,
      << 116, 104, 101, 121 >>, << 116, 104, 105, 99, 107 >>, << 116, 104, 105, 110 >>,
      << 116, 104, 105, 114, 100 >>, << 116, 104, 105, 115 >>, << 116, 104, 111, 115, 101 >>,
      << 116, 104, 111, 117, 103, 104 >>, << 116, 104, 114, 101, 101 >>,
      << 116, 104, 114, 111, 117, 103, 104 >>,
      << 116, 104, 114, 111, 117, 103, 104, 111, 117, 116 >>, << 116, 104, 114, 117 >>,
      << 116, 104, 117, 115 >>, << 116, 111 >>, << 116, 111, 103, 101, 116, 104, 101, 114 >>,
      << 116, 111, 111 >>, << 116, 111, 112 >>, << 116, 111, 119, 97, 114, 100 >>,
      << 116, 111, 119, 97, 114, 100, 115 >>, << 116, 119, 101, 108, 118, 101 >>,
      << 116, 119, 101, 110, 116, 121 >>, << 116, 119, 111 >>, << 117, 110 >>,
      << 117, 110, 100, 101, 114 >>, << 117, 110, 116, 105, 108 >>, << 117, 112 >>,
      << 117, 112, 111, 110 >>, << 117, 115 >>, << 118, 101, 114, 121 >>, << 118, 105, 97 >>,
      << 119, 97, 115 >>, << 119, 101 >>, << 119, 101, 108, 108 >>, << 119, 101, 114, 101 >>,
      << 119, 104, 97, 116 >>, << 119, 104, 97, 116, 101, 118, 101, 114 >>,
      << 119, 104, 101, 110 >>, << 119, 104, 101, 110, 99, 101 >>,
      << 119, 104, 101, 110, 101, 118, 101, 114 >>, << 119, 104, 101, 114, 101 >>,
      << 119, 104, 101, 114, 101, 97, 102, 116, 101, 114 >>,
      << 119, 104, 101, 114, 101, 97, 115 >>, << 119, 104, 101, 114, 101, 98, 121 >>,
      << 119, 104, 101, 114, 101, 105, 110 >>,
      << 119, 104, 101, 114, 101, 117, 112, 111, 110 >>,
      << 119, 104, 101, 114, 101, 118, 101, 114 >>, << 119, 104, 101, 116, 104, 101, 114 >>,
      << 119, 104, 105, 99, 104 >>, << 119, 104, 105, 108, 101 >>,
      << 119, 104, 105, 116, 104, 101, 114 >>, << 119, 104, 111 >>,
      << 119, 104, 111, 101, 118, 101, 114 >>, << 119, 104, 111, 108, 101 >>,
      << 119, 104, 111, 109 >>, << 119, 104, 111, 115, 101 >>, << 119, 104, 121 >>,
      << 119, 105, 108, 108 >>, << 119, 105, 116, 104 >>, << 119, 105, 116, 104, 105, 110 >>,
      << 119, 105, 116, 104, 111, 117, 116 >>, << 119, 111, 117, 108, 100 >>,
      << 121, 101, 116 >>, << 121, 111, 117 >>, << 121, 111, 117, 114 >>,
      << 121, 111, 117, 114, 115 >>, << 121, 111, 117, 114, 115, 101, 108, 102 >>,
      << 121, 111, 117, 114, 115, 101, 108, 118, 101, 115 >> }

\* What the analyzer of TfidfVectorizer(stop_words='english') keeps of a
\* document: its tokens that are no stop word, here as a text of these tokens.
WithoutStopWords(doc) ==
    LET NoStopWord(tok) == tok \notin StopWords
        toks == SelectSeq(Tokens(doc), NoStopWord)
    IN  Flatten([i \in 1..Len(toks) |-> toks[i] \o << 32 >>])

RECURSIVE SetToSeq(_)
SetToSeq(S) ==
    IF S = {} THEN << >>
    ELSE LET x == CHOOSE y \in S : TRUE IN << x >> \o SetToSeq(S \ {x})

(***************************************************************************)
(* Whole numbers of any size, for the arithmetic below: a number is the    *)
(* sequence of its digits in base 10000, lowest first, without leading     *)
(* zeros; 0 is the empty sequence.                                         *)
(***************************************************************************)
Base == 10000

\* The digits of the number whose (unreduced) digits are s, plus the carry c.
RECURSIVE Carry(_, _)
Carry(s, c) ==
    IF s = << >>
    THEN IF c = 0 THEN << >> ELSE << c % Base >> \o Carry(<< >>, c \div Base)
    ELSE << (Head(s) + c) % Base >> \o Carry(Tail(s), (Head(s) + c) \div Base)

BigFromInt(n) == Carry(<< >>, n)

RECURSIVE SumTo(_, _, _)
SumTo(F(_), i, j) == IF i > j THEN 0 ELSE F(i) + SumTo(F, i + 1, j)

Max(a, b) == IF a > b THEN a ELSE b

Min(a, b) == IF a < b THEN a ELSE b

BigMul(a, b) ==
    IF a = << >> \/ b = << >> THEN << >>
    ELSE Carry([k \in 1..(Len(a) + Len(b) - 1) |->
                   SumTo(LAMBDA i : a[i] * b[k + 1 - i],
                         Max(1, k + 1 - Len(b)), Min(k, Len(a)))], 0)

BigAdd(a, b) ==
    Carry([k \in 1..Max(Len(a), Len(b)) |->
              (IF k <= Len(a) THEN a[k] ELSE 0) + (IF k <= Len(b) THEN b[k] ELSE 0)], 0)

RECURSIVE BigSum(_)
BigSum(s) == IF s = << >> THEN << >> ELSE BigAdd(Head(s), BigSum(Tail(s)))

RECURSIVE BigLeqFrom(_, _, _)
BigLeqFrom(a, b, k) ==
    IF k = 0 THEN TRUE
    ELSE IF a[k] # b[k] THEN a[k] < b[k]
    ELSE BigLeqFrom(a, b, k - 1)

\* a <= b
BigLeq(a, b) == IF Len(a) # Len(b) THEN Len(a) < Len(b) ELSE BigLeqFrom(a, b, Len(a))

\* The digits s without the zeros at their high end.
RECURSIVE Trim(_)
Trim(s) ==
    IF s = << >> THEN << >>
    ELSE IF s[Len(s)] = 0 THEN Trim(SubSeq(s, 1, Len(s) - 1))
    ELSE s

\* The digits of a - b from digit k on with the borrow c, for a >= b.
RECURSIVE Borrow(_, _, _, _)
Borrow(a, b, k, c) ==
    IF k > Len(a) THEN << >>
    ELSE LET d == a[k] - (IF k <= Len(b) THEN b[k] ELSE 0) - c
         IN  IF d < 0 THEN << d + Base >> \o Borrow(a, b, k + 1, 1)
             ELSE << d >> \o Borrow(a, b, k + 1, 0)

\* a - b, for a >= b
BigSub(a, b) == Trim(Borrow(a, b, 1, 0))

\* a without its k lowest digits: a \div Base^k
DropLow(a, k) == IF k >= Len(a) THEN << >> ELSE SubSeq(a, k + 1, Len(a))

\* a * Base^k
ShiftUp(a, k) == IF a = << >> THEN << >> ELSE [i \in 1..k |-> 0] \o a

\* F(e), with e worked out once (the model checker would otherwise work e
\* out again at every use of it inside F).
Let(e, F(_)) == CHOOSE r \in {F(v) : v \in {e}} : TRUE

\* 10^24 * ln(k) for k = 1..17, to the nearest whole number.
Ln ==
    << << >>,
       << 7232, 941, 9453, 559, 4718, 6931 >>,
       << 5245, 9139, 1096, 8668, 1228, 986, 1 >>,
       << 4464, 1883, 8906, 1119, 9436, 3862, 1 >>,
       << 759, 7460, 1003, 2434, 3791, 6094, 1 >>,
       << 2477, 81, 550, 9228, 5946, 7917, 1 >>,
       << 5353, 510, 3133, 9055, 1014, 9459, 1 >>,
       << 1696, 2825, 8359, 1679, 4154, 794, 2 >>,
       << 490, 8279, 2193, 7336, 2457, 1972, 2 >>,
       << 7991, 8401, 456, 2994, 8509, 3025, 2 >>,
       << 1944, 4406, 3705, 2798, 9527, 3978, 2 >>,
       << 9709, 1022, 3, 9788, 664, 4849, 2 >>,
       << 3487, 3605, 5367, 7461, 4935, 5649, 2 >>,
       << 2585, 1452, 2586, 9615, 5732, 6390, 2 >>,
       << 6005, 6599, 2100, 1102, 5020, 7080, 2 >>,
       << 8928, 3766, 7812, 2239, 8872, 7725, 2 >>,
       << 9535, 8024, 2160, 4056, 1334, 8332, 2 >> >>

\* smooth idf of a term found in df of n documents, ln((1 + n) / (1 + df)) + 1,
\* as a whole number of units of 10^-24
SmoothIdf(n, df) == BigSub(BigAdd(<< 0, 0, 0, 0, 0, 0, 1 >>, Ln[1 + n]), Ln[1 + df])

\* The vocabulary fit_transform learns: every token of every document.
Vocabulary(docs) == UNION {Range(Tokens(docs[i])) : i \in 1..Len(docs)}

\* The tf-idf weight of every term of vocab in every document, in units of
\* 10^-12: the term's count in the document times its smooth idf.
Weights(toks, vocab) ==
    LET n == Len(toks)
        m == Len(vocab)
    IN  Let([i \in 1..n |-> [k \in 1..m |->
                Cardinality({p \in 1..Len(toks[i]) : toks[i][p] = vocab[k]})]],
            LAMBDA tf :
                Let([k \in 1..m |-> SmoothIdf(n, Cardinality({i \in 1..n : tf[i][k] > 0}))],
                    LAMBDA idf : [i \in 1..n |-> [k \in 1..m |->
                                     BigMul(BigFromInt(tf[i][k]), idf[k])]]))

\* The dot product of two rows of weights.
Dot(u, v) == BigSum([k \in 1..Len(u) |-> BigMul(u[k], v[k])])

\* A similarity score is a whole number of units of 10^-16, written as its
\* digits in base 10000, lowest first: this is 1.0.
ScoreOne == << 0, 0, 0, 0, 1 >>

\* The digits of precision kept of |u|^2 |v|^2 and (u.v)^2, in base 10000.
Kept == 8

\* s^2 * P <= Q
SquareFits(s, P, Q) == Let(Trim(s), LAMBDA t : BigLeq(BigMul(BigMul(t, t), P), Q))

\* The greatest d in lo..hi for which s, with d for its digit k, has
\* s^2 * P <= Q.
RECURSIVE BisectDigit(_, _, _, _, _, _)
BisectDigit(P, Q, s, k, lo, hi) ==
    IF lo >= hi THEN lo
    ELSE LET mid == (lo + hi + 1) \div 2
         IN  IF SquareFits([s EXCEPT ![k] = mid], P, Q)
             THEN BisectDigit(P, Q, s, k, mid, hi)
             ELSE BisectDigit(P, Q, s, k, lo, mid - 1)

\* The greatest s of five digits, at most 1.0, with s^2 * P <= Q, found digit
\* by digit from digit k down; the digits above k are those of s.
RECURSIVE SquareRootFrom(_, _, _, _)
SquareRootFrom(P, Q, s, k) ==
    IF k = 0 THEN Trim(s)
    ELSE Let(BisectDigit(P, Q, s, k, 0, IF k = 5 THEN 1 ELSE Base - 1),
             LAMBDA d : SquareRootFrom(P, Q, [s EXCEPT ![k] = d], k - 1))

\* The cosine of two rows of weights, u.v / (|u| |v|), in units of 10^-16,
\* rounded down: the greatest s with s^2 |u|^2 |v|^2 <= 10^32 (u.v)^2, both
\* sides cut to their Kept highest digits.  A row with itself, or with an
\* equal row, has the cosine 1; the row of a document without tokens is a
\* row of zeros and has the cosine 0 with every row.
RowCosine(u, v) ==
    Let(<< Dot(u, u), Dot(v, v), Dot(u, v) >>,
        LAMBDA d :
            IF d[1] = << >> \/ d[2] = << >> \/ d[3] = << >> THEN << >>
            ELSE IF u = v THEN ScoreOne
            ELSE Let(BigMul(d[1], d[2]),
                     LAMBDA P :
                         SquareRootFrom(DropLow(P, Max(0, Len(P) - Kept)),
                                        DropLow(ShiftUp(BigMul(d[3], d[3]), 8),
                                                Max(0, Len(P) - Kept)),
                                        << 0, 0, 0, 0, 0 >>, 5)))

\* The weights of the documents, row by row.
TfidfRows(docs) ==
    Let([i \in 1..Len(docs) |-> Tokens(docs[i])],
        LAMBDA toks : Weights(toks, SetToSeq(UNION {Range(toks[i]) : i \in 1..Len(toks)})))

\* The cosines of the rows w, each with each: the matrix is symmetric.
Cosines(w) ==
    Let([r \in 1..Len(w) |-> [c \in 1..Len(w) |->
            IF r <= c THEN RowCosine(w[r], w[c]) ELSE << >>]],
        LAMBDA upper : [r \in 1..Len(w) |-> [c \in 1..Len(w) |->
                           IF r <= c THEN upper[r][c] ELSE upper[c][r]]])

\* cosine_similarity(tfidf_matrix, tfidf_matrix) in real numbers: the matrix
\* of scores, each in units of 10^-16.
CosineSim(docs) == Cosines(TfidfRows(docs))

\* The floating-point error of an entry of the matrix is taken to be at most
\* this many units of 10^-16.
FloatError == 10

\* What floating point makes of a cosine: the cosine, or up to FloatError
\* less or more.
LastBit == {-1, 0, 1}

\* The score with the error of floating point that bit names.
WithError(score, bit) ==
    IF bit = 1 THEN BigAdd(score, BigFromInt(FloatError))
    ELSE IF bit = -1 /\ ~BigLeq(score, BigFromInt(FloatError))
    THEN BigSub(score, BigFromInt(FloatError))
    ELSE score

\* a and b differ by at most d units.
Near(a, b, d) == BigLeq(a, BigAdd(b, BigFromInt(d))) /\ BigLeq(b, BigAdd(a, BigFromInt(d)))

\* The first row equal to row i.
FirstEqual(w, i) == CHOOSE k \in 1..i : w[k] = w[i] /\ \A j \in 1..(k - 1) : w[j] # w[i]

\* The pair of rows r and c, named so that equal pairs of rows have one name.
RowPair(w, r, c) ==
    << Min(FirstEqual(w, r), FirstEqual(w, c)), Max(FirstEqual(w, r), FirstEqual(w, c)) >>

\* The pairs of rows whose score the error of floating point can move across
\* something it is compared with: the threshold, the 1.0 of a pair of equal
\* files, or the score of another pair.  A score of 0 is exact.
ErrorSeen(w, sim, threshold) ==
    Let({rc \in {RowPair(w, r, c) : r, c \in 1..Len(w)} : sim[rc[1]][rc[2]] # << >>},
        LAMBDA pairs :
            {rc \in pairs :
                \/ Near(sim[rc[1]][rc[2]], threshold, FloatError)
                \/ Near(sim[rc[1]][rc[2]], ScoreOne, FloatError)
                \/ \E other \in pairs \ {rc} :
                       Near(sim[rc[1]][rc[2]], sim[other[1]][other[2]], 2 * FloatError)})

\* The matrices cosine_similarity can return for the documents, as far as a
\* comparison with the threshold, with 1.0 or of two scores can tell them
\* apart: every score as in CosineSim, but a score within the error of
\* floating point of what it is compared with may be less or more, the same
\* for equal pairs of rows.
CosineSimFloats(docs, threshold) ==
    Let(TfidfRows(docs),
        LAMBDA w :
            Let(Cosines(w),
                LAMBDA sim :
                    Let(ErrorSeen(w, sim, threshold),
                        LAMBDA seen :
                            { [r \in 1..Len(w) |-> [c \in 1..Len(w) |->
                                  IF RowPair(w, r, c) \in seen
                                  THEN WithError(sim[r][c], bits[RowPair(w, r, c)])
                                  ELSE sim[r][c]]] : bits \in [seen -> LastBit] })))

\* zip(rows, cols) of np.where(cosine_sim > threshold): the index pairs of an
\* n x n matrix in row-major order.
IndexPairs(n) == [k \in 1..(n * n) |-> << ((k - 1) \div n) + 1, ((k - 1) % n) + 1 >>]

\* cosine_sim > threshold inside np.where
ScoreAbove(score, threshold) == ~BigLeq(score, threshold)

\* the loop's test as it would be if it only left out the diagonal
RowNotCol(r, c) == r # c

\* the loop's "if r < c"
RowBeforeCol(r, c) == r < c

\* The guard as it would be if only an empty corpus were turned away.
NoFiles(n_files) == n_files < 1

\* if n_files < 2
TooFewFiles(n_files) == n_files < 2

\* mixed.find_duplicates_tfidf: the outcomes the call can have, one for every
\* matrix cosine_similarity can return.  error: fit_transform raised
\* ValueError("empty vocabulary ..."), which nothing catches; value: the list
\* of (paths[r], paths[c], score) otherwise; vectorized: fit_transform was
\* called; cosine_sim: the matrix the pairs were taken from.
find_duplicates_tfidf(paths, docs, threshold) ==
    LET n_files == Len(docs)
        Pairs(cosine_sim) ==
            LET Keep(rc) == /\ ScoreAbove(cosine_sim[rc[1]][rc[2]], threshold)
                            /\ RowBeforeCol(rc[1], rc[2])
            IN  Let(SelectSeq(IndexPairs(n_files), Keep),
                    LAMBDA kept : [k \in 1..Len(kept) |->
                                      << paths[kept[k][1]], paths[kept[k][2]],
                                         cosine_sim[kept[k][1]][kept[k][2]] >>])
    IN  IF TooFewFiles(n_files)
        THEN {[error |-> FALSE, value |-> << >>, vectorized |-> FALSE, cosine_sim |-> << >>]}
        ELSE IF Vocabulary(docs) = {}
        THEN {[error |-> TRUE, value |-> << >>, vectorized |-> TRUE, cosine_sim |-> << >>]}
        ELSE {[error |-> FALSE, value |-> Pairs(cosine_sim), vectorized |-> TRUE,
               cosine_sim |-> cosine_sim] : cosine_sim \in CosineSimFloats(docs, threshold)}

(***************************************************************************)
(* mixed.py: scan_paths, load_documents, find_duplicates_binary, main.     *)
(***************************************************************************)
\* main's threshold=0.90: the float 0.9 is 0.90000000000000002..., in units
\* of 10^-16
DefaultThreshold == << 0, 0, 0, 9000 >>

\* the score of a pair of files with one digest: 1.0
ExactScore == ScoreOne

\* scan_paths' first lines: a single str or Path becomes a list of one root.
\* root_paths is [kind |-> "str", path |-> the path] or [kind |-> "list", list |-> the
\* paths] (the field that does not apply is empty).
RootList(root_paths) ==
    IF root_paths.kind = "str" THEN << root_paths.path >> ELSE root_paths.list

\* load_documents as main.py has it: a text-bearing extension without text is
\* in no list.
ClassifyDroppingNoText(path) ==
    IF Lower(Suffix(path)) \in TextSuffixes
    THEN LET raw_text == extract_text(path)
         IN  IF Truthy(raw_text) /\ Len(text_clean(raw_text)) > MinContentLen THEN "text"
             ELSE "dropped"
    ELSE "binary"

\* load_documents' decision for one path: "text" (into text_file_paths and
\* documents), "binary" (into binary_file_paths) or "dropped" (the branch that
\* is only "pass").
Classify(path) ==
    IF Lower(Suffix(path)) \in TextSuffixes
    THEN LET raw_text == extract_text(path)
         IN  IF Truthy(raw_text)
             THEN IF Len(text_clean(raw_text)) > MinContentLen THEN "text" ELSE "dropped"
             ELSE "binary"
    ELSE "binary"

\* load_documents of main.py, tfidf.py and tfdfi.py on one path.  main.py
\* compares the suffix in lower case and sends every other suffix to the
\* binary list; tfidf.py and tfdfi.py compare it as it is and skip every other
\* suffix.  A text-bearing suffix without a text of more than 50 characters
\* is in no list.  tfidf.py imports text_utils.extract_text, the two others
\* have their own.
ClassifyIn(program, path) ==
    LET suffix == IF program = "main.py" THEN Lower(Suffix(path)) ELSE Suffix(path)
        raw_text == IF program = "tfidf.py" THEN extract_text(path)
                    ELSE ExtractTextUnchecked(path)
    IN  IF suffix \in TextSuffixes
        THEN IF Truthy(raw_text) /\ Len(text_clean(raw_text)) > MinContentLen THEN "text"
             ELSE "dropped"
        ELSE IF program = "main.py" THEN "binary" ELSE "dropped"

\* hash_map[key].append(p) on a defaultdict(list), kept as a sequence of
\* <<key, list>> items in the order the keys were first inserted.
HashMapAppend(hm, key, p) ==
    IF \E i \in 1..Len(hm) : hm[i][1] = key
    THEN [i \in 1..Len(hm) |->
             IF hm[i][1] = key THEN << key, Append(hm[i][2], p) >> ELSE hm[i]]
    ELSE Append(hm, << key, << p >> >>)

\* The first loop as it would be without "if file_hash": a file that could not
\* be read is filed under None.
RECURSIVE HashBinaryAllUnchecked(_, _)
HashBinaryAllUnchecked(paths, hm) ==
    IF paths = << >> THEN hm
    ELSE HashBinaryAllUnchecked(Tail(paths),
                                HashMapAppend(hm, hash_binary(Head(paths)), Head(paths)))

\* find_duplicates_binary's first loop, from the map hm on.
RECURSIVE HashBinaryAll(_, _)
HashBinaryAll(paths, hm) ==
    IF paths = << >> THEN hm
    ELSE LET file_hash == hash_binary(Head(paths))
         IN  HashBinaryAll(Tail(paths),
                           IF Truthy(file_hash) THEN HashMapAppend(hm, file_hash, Head(paths))
                           ELSE hm)

\* for i in range(len(files)): for j in range(i + 1, len(files)): (files[i], files[j], 1.0)
PairsOf(files) ==
    LET n == Len(files)
        Before(ij) == ij[1] < ij[2]
        ijs == SelectSeq(IndexPairs(n), Before)
    IN  [k \in 1..Len(ijs) |-> << files[ijs[k][1]], files[ijs[k][2]], ExactScore >>]

\* find_duplicates_binary's second loop: the pairs of every digest with more
\* than one file, digest by digest.
CollisionPairs(hm) ==
    Flatten([i \in 1..Len(hm) |-> IF Len(hm[i][2]) > 1 THEN PairsOf(hm[i][2]) ELSE << >>])

find_duplicates_binary(paths) ==
    IF paths = << >> THEN << >> ELSE CollisionPairs(HashBinaryAll(paths, << >>))

\* The sort as it would be if written sort(key=...) then reverse(): by score,
\* highest first, but results of equal score end in the opposite order.
RECURSIVE InsertByScoreFirst(_, _)
InsertByScoreFirst(sorted, x) ==
    IF sorted = << >> THEN << x >>
    ELSE IF ~BigLeq(Head(sorted)[3], x[3])
    THEN << Head(sorted) >> \o InsertByScoreFirst(Tail(sorted), x)
    ELSE << x >> \o sorted

RECURSIVE SortThenReverse(_)
SortThenReverse(results) ==
    IF results = << >> THEN << >>
    ELSE InsertByScoreFirst(SortThenReverse(SubSeq(results, 1, Len(results) - 1)),
                            results[Len(results)])

\* list.sort(key=lambda x: x[2], reverse=True): by score, highest first; the
\* sort is stable, so results of equal score keep the order they had.
RECURSIVE InsertByScore(_, _)
InsertByScore(sorted, x) ==
    IF sorted = << >> THEN << x >>
    ELSE IF BigLeq(x[3], Head(sorted)[3])
    THEN << Head(sorted) >> \o InsertByScore(Tail(sorted), x)
    ELSE << x >> \o sorted

RECURSIVE SortByScore(_)
SortByScore(results) ==
    IF results = << >> THEN << >>
    ELSE InsertByScore(SortByScore(SubSeq(results, 1, Len(results) - 1)),
                       results[Len(results)])

\* The decimal digits of n, as text.
RECURSIVE Decimal(_)
Decimal(n) == IF n < 10 THEN << 48 + n >> ELSE Decimal(n \div 10) \o << 48 + (n % 10) >>

\* A number of ten-thousandths as text with four decimals: 9002 is "0.9002".
Fixed4(n) ==
    Decimal(n \div 10000) \o << 46 >>
        \o << 48 + ((n \div 1000) % 10), 48 + ((n \div 100) % 10),
              48 + ((n \div 10) % 10), 48 + (n % 10) >>

\* Digit k of the number a, 0 above its highest digit.
Digit(a, k) == IF k <= Len(a) THEN a[k] ELSE 0

\* f"{score:.4f}": the score rounded to four decimals.  What follows the
\* fourth decimal is less than a half, which rounds down, or more, which
\* rounds up; within the error of floating point of a half, the float can be
\* on either side of it.
FormatScore(score) ==
    LET rest == Trim(<< Digit(score, 1), Digit(score, 2), Digit(score, 3) >>)
        half == << 0, 0, 5000 >>
    IN  {Fixed4(Digit(score, 4) + Base * Digit(score, 5) + up) :
            up \in IF Near(rest, half, FloatError) THEN {0, 1}
                   ELSE IF BigLeq(rest, half) THEN {0}
                   ELSE {1}}

\* "Similarity Score", "File A", "File B"
ReportHeader ==
    << << 83, 105, 109, 105, 108, 97, 114, 105, 116, 121, 32, 83, 99, 111, 114, 101 >>,
       << 70, 105, 108, 101, 32, 65 >>,
       << 70, 105, 108, 101, 32, 66 >> >>

\* for file_a, file_b, score in results: writer.writerow([f"{score:.4f}", file_a, file_b])
RECURSIVE ReportRows(_)
ReportRows(results) ==
    IF results = << >> THEN {<< >>}
    ELSE {<< << text, Head(results)[1], Head(results)[2] >> >> \o rest :
             text \in FormatScore(Head(results)[3]), rest \in ReportRows(Tail(results))}

\* mixed.save_to_csv: the rows the writer is given, the header first, each a
\* list of fields; the file is taken to be writable.
save_to_csv(results) == {<< ReportHeader >> \o rows : rows \in ReportRows(results)}

\* The outcome of a call that is not made.
NoCall == [error |-> FALSE, value |-> << >>, vectorized |-> FALSE, cosine_sim |-> << >>]

\* The disks and the root arguments the scans are run on.
MaxFiles == 3

\* The files of the directories that exist whatever the machine.
ScanIds == {f \in FileIds : Catalogue[f].dir \in Range(AllDirs)}

Disks == {S \in SUBSET ScanIds : Cardinality(S) <= MaxFiles}

RootInputs ==
    { [kind |-> "str", path |-> DirA, list |-> << >>],
      [kind |-> "list", path |-> << >>, list |-> << DirB >>],
      [kind |-> "list", path |-> << >>, list |-> << DirA, DirB >>],
      [kind |-> "list", path |-> << >>, list |-> << DirB, DirA >>],
      [kind |-> "list", path |-> << >>, list |-> << DirB, DirB >>],
      [kind |-> "list", path |-> << >>, list |-> << DirA, DirAS >>],
      [kind |-> "list", path |-> << >>, list |-> << DirMissing, DirB >>],
      [kind |-> "list", path |-> << >>, list |-> << DirA, DirMissing >>],
      [kind |-> "list", path |-> << >>, list |-> << DirMissing >>] }

\* mixed.main(mounted_drive) is entered: load_documents starts with empty lists.
Init ==
    /\ roots \in RootInputs
    /\ fs \in Disks
    /\ drive_exists = FALSE
    /\ pc = "load"
    /\ root_idx = 1
    /\ pending = << >>
    /\ enumerated = << >>
    /\ warnings = << >>
    /\ text_file_paths = << >>
    /\ documents = << >>
    /\ binary_file_paths = << >>
    /\ hash_map = << >>
    /\ hashed = << >>
    /\ all_results = << >>
    /\ report = << >>
    /\ groups = << >>
    /\ fn_paths = << >>
    /\ fn_documents = << >>
    /\ fn_threshold = << >>
    /\ fn_result = NoCall
    /\ ex_file = NoFile
    /\ ex_calls = << >>
    /\ ex_text = None
    /\ text_data_in = << >>
    /\ cleaned_once = << >>
    /\ cleaned_twice = << >>

\* scan_paths has no path left to yield.
WalkExhausted == pending = << >> /\ root_idx > Len(RootList(roots))

\* scan_paths: the next root exists, os.walk starts on it.
EnterRoot ==
    /\ pc = "load"
    /\ pending = << >>
    /\ root_idx <= Len(RootList(roots))
    /\ PathExists(RootList(roots)[root_idx])
    /\ pending' = Walk(fs, RootList(roots)[root_idx])
    /\ root_idx' = root_idx + 1
    /\ UNCHANGED << roots, fs, drive_exists, pc, enumerated, warnings, text_file_paths, documents,
                    binary_file_paths, hash_map, hashed, all_results, report, groups,
                    fn_paths, fn_documents, fn_threshold, fn_result,
                    ex_file, ex_calls, ex_text, text_data_in, cleaned_once, cleaned_twice >>

\* scan_paths as it would be if a missing root were fatal: the scan ends there.
AbortOnMissingRoot ==
    /\ pc = "load"
    /\ pending = << >>
    /\ root_idx <= Len(RootList(roots))
    /\ ~PathExists(RootList(roots)[root_idx])
    /\ warnings' = Append(warnings, RootList(roots)[root_idx])
    /\ pc' = "crashed"
    /\ UNCHANGED << roots, fs, drive_exists, root_idx, pending, enumerated, text_file_paths, documents,
                    binary_file_paths, hash_map, hashed, all_results, report, groups,
                    fn_paths, fn_documents, fn_threshold, fn_result,
                    ex_file, ex_calls, ex_text, text_data_in, cleaned_once, cleaned_twice >>

\* scan_paths: the next root does not exist: a warning, and on to the next root.
SkipMissingRoot ==
    /\ pc = "load"
    /\ pending = << >>
    /\ root_idx <= Len(RootList(roots))
    /\ ~PathExists(RootList(roots)[root_idx])
    /\ warnings' = Append(warnings, RootList(roots)[root_idx])
    /\ root_idx' = root_idx + 1
    /\ UNCHANGED << roots, fs, drive_exists, pc, pending, enumerated, text_file_paths, documents,
                    binary_file_paths, hash_map, hashed, all_results, report, groups,
                    fn_paths, fn_documents, fn_threshold, fn_result,
                    ex_file, ex_calls, ex_text, text_data_in, cleaned_once, cleaned_twice >>

\* load_documents: one turn of its loop, on the next path scan_paths yields.
LoadDocument ==
    /\ pc = "load"
    /\ pending # << >>
    /\ \E path \in {Head(pending)} : \E kind \in {Classify(Head(pending))} :
           /\ enumerated' = Append(enumerated, path)
           /\ text_file_paths' =
                  IF kind = "text" THEN Append(text_file_paths, path) ELSE text_file_paths
           /\ documents' =
                  IF kind = "text" THEN Append(documents, text_clean(extract_text(path)))
                  ELSE documents
           /\ binary_file_paths' =
                  IF kind = "binary" THEN Append(binary_file_paths, path)
                  ELSE binary_file_paths
    /\ pending' = Tail(pending)
    /\ UNCHANGED << roots, fs, drive_exists, pc, root_idx, warnings, hash_map, hashed, all_results,
                    report, groups, fn_paths, fn_documents, fn_threshold, fn_result,
                    ex_file, ex_calls, ex_text, text_data_in, cleaned_once, cleaned_twice >>

\* Step 2 as it would be if main did not wait for load_documents to return.
TextStageEarly ==
    /\ pc = "load"
    /\ \E res \in IF text_file_paths # << >>
                  THEN find_duplicates_tfidf(text_file_paths, documents, DefaultThreshold)
                  ELSE {NoCall} :
           /\ pc' = IF res.error THEN "crashed" ELSE "binary"
           /\ all_results' = all_results \o res.value
    /\ UNCHANGED << roots, fs, drive_exists, root_idx, pending, enumerated, warnings, text_file_paths,
                    documents, binary_file_paths, hash_map, hashed, report, groups,
                    fn_paths, fn_documents, fn_threshold, fn_result,
                    ex_file, ex_calls, ex_text, text_data_in, cleaned_once, cleaned_twice >>

\* main, step 2: load_documents has returned; the text files are compared.
\* A ValueError out of find_duplicates_tfidf ends the program.
TextStage ==
    /\ pc = "load"
    /\ WalkExhausted
    /\ \E res \in IF text_file_paths # << >>
                  THEN find_duplicates_tfidf(text_file_paths, documents, DefaultThreshold)
                  ELSE {NoCall} :
           /\ pc' = IF res.error THEN "crashed" ELSE "binary"
           /\ all_results' = all_results \o res.value
    /\ UNCHANGED << roots, fs, drive_exists, root_idx, pending, enumerated, warnings, text_file_paths,
                    documents, binary_file_paths, hash_map, hashed, report, groups,
                    fn_paths, fn_documents, fn_threshold, fn_result,
                    ex_file, ex_calls, ex_text, text_data_in, cleaned_once, cleaned_twice >>

\* main, step 3: the binary files are hashed and the colliding ones paired.
BinaryStage ==
    /\ pc = "binary"
    /\ hash_map' = HashBinaryAll(binary_file_paths, << >>)
    /\ hashed' = binary_file_paths
    /\ all_results' = all_results \o find_duplicates_binary(binary_file_paths)
    /\ pc' = "sort"
    /\ UNCHANGED << roots, fs, drive_exists, root_idx, pending, enumerated, warnings, text_file_paths,
                    documents, binary_file_paths, report, groups,
                    fn_paths, fn_documents, fn_threshold, fn_result,
                    ex_file, ex_calls, ex_text, text_data_in, cleaned_once, cleaned_twice >>

\* main, steps 4 to 6: without results it returns; otherwise the results are
\* sorted and save_to_csv writes them.
SortAndSave ==
    /\ pc = "sort"
    /\ all_results' = SortByScore(all_results)
    /\ report' \in IF all_results = << >> THEN {<< >>} ELSE save_to_csv(all_results')
    /\ pc' = "done"
    /\ UNCHANGED << roots, fs, drive_exists, root_idx, pending, enumerated, warnings, text_file_paths,
                    documents, binary_file_paths, hash_map, hashed, groups,
                    fn_paths, fn_documents, fn_threshold, fn_result,
                    ex_file, ex_calls, ex_text, text_data_in, cleaned_once, cleaned_twice >>

Next ==
    \/ EnterRoot
    \/ SkipMissingRoot
    \/ LoadDocument
    \/ TextStage
    \/ BinaryStage
    \/ SortAndSave

Spec == Init /\ [][Next]_vars

(***************************************************************************)
(* binary_hashing.py: the exact-only scan, as a call of find_duplicates on  *)
(* scan roots and as a run of main, which scans Downloads and saves the    *)
(* groups.                                                                 *)
(***************************************************************************)
\* The files Downloads can hold.
DownloadIds == {f \in FileIds : Catalogue[f].dir = Downloads}

\* The disks of a machine that has Downloads.
DownloadDisks == {S \in SUBSET DownloadIds : Cardinality(S) <= MaxFiles}

\* What main is called with.
MainArguments ==
    { [kind |-> "str", path |-> DirA, list |-> << >>],
      [kind |-> "list", path |-> << >>, list |-> << DirMissing >>] }

InitExact ==
    /\ \/ /\ pc = "crawl"
          /\ roots \in RootInputs
          /\ fs \in Disks
          /\ drive_exists = FALSE
       \/ /\ pc = "main"
          /\ roots \in MainArguments
          /\ drive_exists \in BOOLEAN
          /\ fs \in IF drive_exists THEN DownloadDisks ELSE {{}}
    /\ root_idx = 1
    /\ pending = << >>
    /\ enumerated = << >>
    /\ warnings = << >>
    /\ text_file_paths = << >>
    /\ documents = << >>
    /\ binary_file_paths = << >>
    /\ hash_map = << >>
    /\ hashed = << >>
    /\ all_results = << >>
    /\ report = << >>
    /\ groups = << >>
    /\ fn_paths = << >>
    /\ fn_documents = << >>
    /\ fn_threshold = << >>
    /\ fn_result = NoCall
    /\ ex_file = NoFile
    /\ ex_calls = << >>
    /\ ex_text = None
    /\ text_data_in = << >>
    /\ cleaned_once = << >>
    /\ cleaned_twice = << >>

\* find_duplicates is running, called on scan roots or by main.
Crawling == pc \in {"crawl", "main_crawl"}

\* binary_hashing.main up to its call of find_duplicates: the argument is
\* overwritten with Downloads, and main returns with an error message when
\* there is no such directory.
MainEnter ==
    /\ pc = "main"
    /\ roots' = [kind |-> "str", path |-> Downloads, list |-> << >>]
    /\ pc' = IF drive_exists THEN "main_crawl" ELSE "no_path"
    /\ UNCHANGED << fs, drive_exists, root_idx, pending, enumerated, warnings,
                    text_file_paths, documents, binary_file_paths, hash_map, hashed,
                    all_results, report, groups, fn_paths, fn_documents, fn_threshold,
                    fn_result, ex_file, ex_calls, ex_text, text_data_in, cleaned_once,
                    cleaned_twice >>

\* for rpath in root_paths: crawl_directory(rpath) starts os.walk on the next
\* root; there is no check that it exists, and a missing one yields no file.
CrawlRoot ==
    /\ Crawling
    /\ pending = << >>
    /\ root_idx <= Len(RootList(roots))
    /\ pending' = Walk(fs, RootList(roots)[root_idx])
    /\ root_idx' = root_idx + 1
    /\ UNCHANGED << roots, fs, drive_exists, pc, enumerated, warnings, text_file_paths, documents,
                    binary_file_paths, hash_map, hashed, all_results, report, groups,
                    fn_paths, fn_documents, fn_threshold, fn_result,
                    ex_file, ex_calls, ex_text, text_data_in, cleaned_once, cleaned_twice >>

\* the inner loop's body: hash_file on the next path, and the map's update
HashFile ==
    /\ Crawling
    /\ pending # << >>
    /\ \E file_path \in {Head(pending)} : \E file_hash \in {hash_file(Head(pending))} :
           /\ enumerated' = Append(enumerated, file_path)
           /\ hashed' = Append(hashed, file_path)
           /\ hash_map' = IF Truthy(file_hash)
                          THEN HashMapAppend(hash_map, file_hash, file_path)
                          ELSE hash_map
    /\ pending' = Tail(pending)
    /\ UNCHANGED << roots, fs, drive_exists, pc, root_idx, warnings, text_file_paths, documents,
                    binary_file_paths, all_results, report, groups,
                    fn_paths, fn_documents, fn_threshold, fn_result,
                    ex_file, ex_calls, ex_text, text_data_in, cleaned_once, cleaned_twice >>

\* {h: paths for h, paths in hash_map.items() if len(paths) > 1}
DuplicateItems(hm) ==
    LET MoreThanOne(item) == Len(item[2]) > 1
    IN  SelectSeq(hm, MoreThanOne)

\* find_duplicates returns
ReturnGroups ==
    /\ Crawling
    /\ WalkExhausted
    /\ groups' = DuplicateItems(hash_map)
    /\ pc' = IF pc = "crawl" THEN "returned" ELSE "main_returned"
    /\ UNCHANGED << roots, fs, drive_exists, root_idx, pending, enumerated, warnings, text_file_paths,
                    documents, binary_file_paths, hash_map, hashed, all_results, report,
                    fn_paths, fn_documents, fn_threshold, fn_result,
                    ex_file, ex_calls, ex_text, text_data_in, cleaned_once, cleaned_twice >>

\* str(paths) of a list of paths: "['a/q.bin', 'b/z.bin']" (the paths of
\* the model hold no quote, backslash or control character)
RECURSIVE ReprItems(_)
ReprItems(paths) ==
    IF paths = << >> THEN << >>
    ELSE << 39 >> \o Head(paths) \o << 39 >>
             \o (IF Len(paths) > 1 THEN << 44, 32 >> ELSE << >>) \o ReprItems(Tail(paths))

ReprList(paths) == << 91 >> \o ReprItems(paths) \o << 93 >>

\* "key", "value"
GroupsHeader == << << 107, 101, 121 >>, << 118, 97, 108, 117, 101 >> >>

\* binary_hashing.save_to_csv: the rows the writer is given, the header
\* first: a row per group, its digest and its list of paths as text; the
\* file is taken to be writable.
save_groups_to_csv(data) ==
    << GroupsHeader >> \o [i \in 1..Len(data) |-> << data[i][1], ReprList(data[i][2]) >>]

\* binary_hashing.main after find_duplicates has returned: without groups it
\* returns ("No duplicates found."), otherwise it prints the groups and
\* save_to_csv writes them.
MainSave ==
    /\ pc = "main_returned"
    /\ report' = IF groups = << >> THEN report ELSE save_groups_to_csv(groups)
    /\ pc' = IF groups = << >> THEN "no_duplicates" ELSE "saved"
    /\ UNCHANGED << roots, fs, drive_exists, root_idx, pending, enumerated, warnings,
                    text_file_paths, documents, binary_file_paths, hash_map, hashed,
                    all_results, groups, fn_paths, fn_documents, fn_threshold, fn_result,
                    ex_file, ex_calls, ex_text, text_data_in, cleaned_once, cleaned_twice >>

NextExact ==
    \/ MainEnter
    \/ CrawlRoot
    \/ HashFile
    \/ ReturnGroups
    \/ MainSave

SpecExact == InitExact /\ [][NextExact]_vars

(***************************************************************************)
(* main.py, tfidf.py and tfdfi.py: the three other programs that write     *)
(* duplicate_report.csv.  main.py is mixed.py with one root, no check that *)
(* it exists, its own extract_text and a load_documents that drops a text  *)
(* file without text; tfidf.py and tfdfi.py have no binary stage and leave *)
(* English stop words out of the vectors.  pc is the file of the program   *)
(* while its load_documents runs.  tfdfi.py calls main() when the module   *)
(* is imported, and so runs on import as it does as a script.              *)
(***************************************************************************)
Programs == {"main.py", "tfidf.py", "tfdfi.py"}

\* "C:/Users", the default of tfidf.main's mounted_drive
Users == << 67, 58, 47, 85, 115, 101, 114, 115 >>

\* A program is started: main.py and tfdfi.py scan Downloads, tfidf.main scans
\* its argument.
InitReport ==
    /\ pc \in Programs
    /\ roots \in {[kind |-> "str", path |-> p, list |-> << >>] :
                     p \in IF pc = "tfidf.py" THEN {Users, Downloads} ELSE {Downloads}}
    /\ drive_exists \in BOOLEAN
    /\ fs \in IF drive_exists THEN DownloadDisks ELSE {{}}
    /\ root_idx = 1
    /\ pending = << >>
    /\ enumerated = << >>
    /\ warnings = << >>
    /\ text_file_paths = << >>
    /\ documents = << >>
    /\ binary_file_paths = << >>
    /\ hash_map = << >>
    /\ hashed = << >>
    /\ all_results = << >>
    /\ report = << >>
    /\ groups = << >>
    /\ fn_paths = << >>
    /\ fn_documents = << >>
    /\ fn_threshold = << >>
    /\ fn_result = NoCall
    /\ ex_file = NoFile
    /\ ex_calls = << >>
    /\ ex_text = None
    /\ text_data_in = << >>
    /\ cleaned_once = << >>
    /\ cleaned_twice = << >>

\* load_documents: os.walk(root) starts; nothing checks that the root exists,
\* and a missing one yields no file.
WalkDrive ==
    /\ pc \in Programs
    /\ root_idx = 1
    /\ pending' = Walk(fs, roots.path)
    /\ root_idx' = 2
    /\ UNCHANGED << roots, fs, drive_exists, pc, enumerated, warnings, text_file_paths,
                    documents, binary_file_paths, hash_map, hashed, all_results, report, groups,
                    fn_paths, fn_documents, fn_threshold, fn_result, ex_file, ex_calls, ex_text,
                    text_data_in, cleaned_once, cleaned_twice >>

\* load_documents: one turn of its loop, on the next path of the walk.
LoadNext ==
    /\ pc \in Programs
    /\ pending # << >>
    /\ \E path \in {Head(pending)} : \E kind \in {ClassifyIn(pc, Head(pending))} :
           /\ enumerated' = Append(enumerated, path)
           /\ text_file_paths' =
                  IF kind = "text" THEN Append(text_file_paths, path) ELSE text_file_paths
           /\ documents' =
                  IF kind = "text"
                  THEN Append(documents,
                              text_clean(IF pc = "tfidf.py" THEN extract_text(path)
                                         ELSE ExtractTextUnchecked(path)))
                  ELSE documents
           /\ binary_file_paths' =
                  IF kind = "binary" THEN Append(binary_file_paths, path)
                  ELSE binary_file_paths
    /\ pending' = Tail(pending)
    /\ UNCHANGED << roots, fs, drive_exists, pc, root_idx, warnings, hash_map, hashed,
                    all_results, report, groups, fn_paths, fn_documents, fn_threshold, fn_result,
                    ex_file, ex_calls, ex_text, text_data_in, cleaned_once, cleaned_twice >>

\* load_documents has returned and the texts are compared.  main.py calls
\* find_duplicates_tfidf when there is a text file, and goes on to the binary
\* files; in tfidf.py and tfdfi.py the comparison is the rest of
\* find_duplicates_tfidf, with stop_words='english', and main goes on to its
\* sort.  A ValueError out of fit_transform ends the program.
CompareTexts ==
    /\ pc \in Programs
    /\ root_idx = 2
    /\ pending = << >>
    /\ \E res \in IF pc = "main.py"
                  THEN IF text_file_paths # << >>
                       THEN find_duplicates_tfidf(text_file_paths, documents, DefaultThreshold)
                       ELSE {NoCall}
                  ELSE find_duplicates_tfidf(
                           text_file_paths,
                           [i \in 1..Len(documents) |-> WithoutStopWords(documents[i])],
                           DefaultThreshold) :
           /\ pc' = IF res.error THEN "crashed"
                    ELSE IF pc = "main.py" THEN "binary"
                    ELSE "sort"
           /\ all_results' = all_results \o res.value
    /\ UNCHANGED << roots, fs, drive_exists, root_idx, pending, enumerated, warnings,
                    text_file_paths, documents, binary_file_paths, hash_map, hashed, report,
                    groups, fn_paths, fn_documents, fn_threshold, fn_result, ex_file, ex_calls,
                    ex_text, text_data_in, cleaned_once, cleaned_twice >>

\* The binary stage of main.py is find_duplicates_binary as mixed.py has it,
\* and the three programs end as mixed.main does: without results they
\* return, otherwise they sort and save.
NextReport ==
    \/ WalkDrive
    \/ LoadNext
    \/ CompareTexts
    \/ BinaryStage
    \/ SortAndSave

SpecReport == InitReport /\ [][NextReport]_vars

(***************************************************************************)
(* mixed.find_duplicates_tfidf called on its own, on a corpus of normalised *)
(* texts.                                                                  *)
(***************************************************************************)
MaxDocs == 3

\* The normalised texts a corpus is drawn from.
DocPool == {TextAAAA, TextAAAAB, TextCCCC, TextLetters}

Corpora == UNION {[1..k -> DocPool] : k \in 0..MaxDocs}

\* a/h.txt < a/s/r.txt < a/t.txt < b/h.txt < b/n.txt: distinct paths, in string order.
CorpusPaths == << PathOf(3), PathOf(4), PathOf(1), PathOf(8), PathOf(12) >>

Reverse(s) == [i \in 1..Len(s) |-> s[Len(s) + 1 - i]]

\* The paths of a corpus of n documents: found in string order, or in the
\* opposite order.
PathLists(n) == {SubSeq(CorpusPaths, 1, n), Reverse(SubSeq(CorpusPaths, 1, n))}

\* thresholds 0.0, 0.90 and 1.0
Thresholds == {<< >>, DefaultThreshold, ExactScore}

InitTfidf ==
    /\ fn_documents \in Corpora
    /\ fn_paths \in PathLists(Len(fn_documents))
    /\ fn_threshold \in Thresholds
    /\ fn_result = NoCall
    /\ ex_file = NoFile
    /\ ex_calls = << >>
    /\ ex_text = None
    /\ text_data_in = << >>
    /\ cleaned_once = << >>
    /\ cleaned_twice = << >>
    /\ pc = "call"
    /\ roots = [kind |-> "list", path |-> << >>, list |-> << >>]
    /\ fs = {}
    /\ drive_exists = FALSE
    /\ root_idx = 1
    /\ pending = << >>
    /\ enumerated = << >>
    /\ warnings = << >>
    /\ text_file_paths = << >>
    /\ documents = << >>
    /\ binary_file_paths = << >>
    /\ hash_map = << >>
    /\ hashed = << >>
    /\ all_results = << >>
    /\ report = << >>
    /\ groups = << >>

CallTfidf ==
    /\ pc = "call"
    /\ fn_result' \in find_duplicates_tfidf(fn_paths, fn_documents, fn_threshold)
    /\ pc' = IF fn_result'.error THEN "raised" ELSE "returned"
    /\ UNCHANGED << roots, fs, drive_exists, root_idx, pending, enumerated, warnings, text_file_paths,
                    documents, binary_file_paths, hash_map, hashed, all_results, report,
                    groups, fn_paths, fn_documents, fn_threshold,
                    ex_file, ex_calls, ex_text, text_data_in, cleaned_once, cleaned_twice >>

NextTfidf == CallTfidf

SpecTfidf == InitTfidf /\ [][NextTfidf]_vars

(***************************************************************************)
(* Properties.                                                             *)
(***************************************************************************)
\* load_documents has returned (main is past step 1).
Loaded == pc \in {"binary", "sort", "done", "crashed"}

\* The paths of the existing roots, in the order scan_paths yields them.
ExpectedStream ==
    Flatten([i \in 1..Len(RootList(roots)) |->
                IF PathExists(RootList(roots)[i]) THEN Walk(fs, RootList(roots)[i])
                ELSE << >>])

\* The roots that do not exist, in the order of the root list.
MissingRoots ==
    LET Missing(r) == ~PathExists(r)
    IN  SelectSeq(RootList(roots), Missing)

\* C1: once load_documents has returned, every path scan_paths enumerated is
\* in exactly one of text_file_paths and binary_file_paths: never in both,
\* never in neither.
C1_ExactlyOneCategory ==
    Loaded =>
        \A i \in 1..Len(enumerated) :
            (enumerated[i] \in Range(text_file_paths))
                # (enumerated[i] \in Range(binary_file_paths))

\* A file the exact-only scan takes for a text: extract_text gives a string.
Extracted(path) == extract_text(path) # None

\* Its text is shorter than the minimum-content threshold.
ShortText(path) == Extracted(path) /\ Len(text_clean(extract_text(path))) < MinContentLen

\* p and q are members of one group of the exact-only scan's result.
SameGroup(p, q) ==
    \E g \in 1..Len(groups) : p \in Range(groups[g][2]) /\ q \in Range(groups[g][2])

\* C2 as claimed: in the exact-only scan a text file whose normalised text is
\* shorter than 50 characters is fingerprinted from its raw bytes, so two such
\* files with different bytes are never in one duplicate group.
C2_ShortTextHashedAsBytes ==
    pc = "returned" =>
        \A p, q \in Range(enumerated) :
            (ShortText(p) /\ ShortText(q) /\ FileAt(p).bytes # FileAt(q).bytes)
                => ~SameGroup(p, q)

\* C2 as amended: in the exact-only scan a file whose extraction succeeds is
\* fingerprinted from its normalised text whatever the text's length, so two
\* such files are in one duplicate group exactly when their normalised texts
\* are equal, whether or not their bytes differ.
C2_ExtractedTextDecidesGroup ==
    pc = "returned" =>
        \A p, q \in Range(enumerated) :
            (p # q /\ Extracted(p) /\ Extracted(q)) =>
                (SameGroup(p, q)
                    <=> text_clean(extract_text(p)) = text_clean(extract_text(q)))

\* C2's case: two short text files of different bytes in one group.
C2_Witness ==
    /\ pc = "returned"
    /\ \E p, q \in Range(enumerated) :
           /\ ShortText(p) /\ ShortText(q)
           /\ FileAt(p).bytes # FileAt(q).bytes
           /\ SameGroup(p, q)

\* C3: the result sequence handed to the report writer holds no pair of paths
\* more than once and no pair whose two paths are the same file.
C3_NoRepeatedNoSelfPair ==
    pc = "done" =>
        /\ \A i \in 1..Len(all_results) : all_results[i][1] # all_results[i][2]
        /\ \A i, j \in 1..Len(all_results) :
               i < j => {all_results[i][1], all_results[i][2]}
                           # {all_results[j][1], all_results[j][2]}

\* C4 as claimed: when a configured root does not exist, no file under any
\* root is enumerated, classified or hashed and nothing is reported.
C4_MissingRootStopsScan ==
    MissingRoots # << >> =>
        /\ enumerated = << >>
        /\ text_file_paths = << >> /\ binary_file_paths = << >>
        /\ hashed = << >>
        /\ report = << >>

\* C4 as amended: a root that does not exist is skipped with a warning and the
\* scan goes on: once load_documents has returned, every missing root has
\* been warned about, and the files enumerated are exactly the files under
\* the existing roots, wherever the missing root stands in the list.
C4_MissingRootSkipped ==
    Loaded =>
        /\ warnings = MissingRoots
        /\ enumerated = ExpectedStream

\* C4's case: a root was missing, and files of another root were enumerated,
\* hashed and reported.
C4_Witness ==
    /\ pc = "done"
    /\ warnings # << >>
    /\ enumerated # << >>
    /\ hashed # << >>
    /\ report # << >>

\* results x and y: x's path pair is y's or comes before it in string order
PairLessEq(x, y) ==
    \/ StrLess(x[1], y[1])
    \/ x[1] = y[1] /\ (StrLess(x[2], y[2]) \/ x[2] = y[2])

\* The results of rs whose score is s, in the order they have in rs.
WithScore(rs, s) ==
    LET Has(x) == x[3] = s
    IN  SelectSeq(rs, Has)

Scores(rs) == {rs[i][3] : i \in 1..Len(rs)}

\* C5 as claimed: the final result list is ordered by score descending and,
\* among results of equal score, by path pair in string order.
C5_SortedByScoreThenPaths ==
    pc = "done" =>
        \A i, j \in 1..Len(all_results) :
            i < j =>
                \/ ~BigLeq(all_results[i][3], all_results[j][3])
                \/ /\ all_results[i][3] = all_results[j][3]
                   /\ PairLessEq(all_results[i], all_results[j])

\* C5 as amended: main's sort leaves the result list ordered by score
\* descending, and results of equal score in the order they were produced
\* in (text pairs before binary pairs, each in the order found); the report
\* has a row for every result, in that order, after its header.
C5_SortedByScoreStable ==
    [][pc = "sort" =>
          /\ \A i, j \in 1..Len(all_results') :
                 i < j => BigLeq(all_results'[j][3], all_results'[i][3])
          /\ Len(all_results') = Len(all_results)
          /\ all_results # << >> => Len(report') = Len(all_results) + 1
          /\ \A i \in 1..Len(all_results') :
                 /\ report'[i + 1][1] \in FormatScore(all_results'[i][3])
                 /\ report'[i + 1][2] = all_results'[i][1]
                 /\ report'[i + 1][3] = all_results'[i][2]
          /\ \A s \in Scores(all_results) :
                 WithScore(all_results', s) = WithScore(all_results, s)]_vars

\* C5's case: a sorted report with a higher score before a lower one, and two
\* results of equal score that are not in the string order of their paths.
C5_Witness ==
    /\ pc = "done"
    /\ report # << >>
    /\ \E i, j \in 1..Len(all_results) :
           i < j /\ ~BigLeq(all_results[i][3], all_results[j][3])
    /\ \E i, j \in 1..Len(all_results) :
           /\ i < j
           /\ all_results[i][3] = all_results[j][3]
           /\ ~PairLessEq(all_results[i], all_results[j])

\* C6 as claimed: every pair find_duplicates_tfidf emits has pathA < pathB in
\* string order.
C6_PairInStringOrder ==
    pc = "returned" =>
        \A k \in 1..Len(fn_result.value) :
            StrLess(fn_result.value[k][1], fn_result.value[k][2])

\* C6 as amended: every pair find_duplicates_tfidf emits has pathA before
\* pathB in the corpus: pathA = paths[r] and pathB = paths[c] for some r < c.
C6_PairInCorpusOrder ==
    pc = "returned" =>
        \A k \in 1..Len(fn_result.value) :
            \E r, c \in 1..Len(fn_paths) :
                /\ r < c
                /\ fn_paths[r] = fn_result.value[k][1]
                /\ fn_paths[c] = fn_result.value[k][2]

\* C6's case: a pair was emitted whose first path comes after its second in
\* string order.
C6_Witness ==
    /\ pc = "returned"
    /\ \E k \in 1..Len(fn_result.value) :
           StrLess(fn_result.value[k][2], fn_result.value[k][1])

\* C7: on a corpus of two or more documents find_duplicates_tfidf returns
\* exactly the pairs (paths[i], paths[j]), i < j, whose score is greater than
\* the threshold, each once (the corpora here have distinct paths); the
\* scores are those of the similarity matrix of the documents.
C7_ExactlyPairsAboveThreshold ==
    (pc # "call" /\ Len(fn_documents) >= 2) =>
        /\ ~fn_result.error
        /\ fn_result.cosine_sim \in CosineSimFloats(fn_documents, fn_threshold)
        /\ \E sim \in {fn_result.cosine_sim} :
               /\ \A i, j \in 1..Len(fn_documents) :
                      (i < j /\ ScoreAbove(sim[i][j], fn_threshold)) =>
                          Cardinality({k \in 1..Len(fn_result.value) :
                                          fn_result.value[k]
                                              = << fn_paths[i], fn_paths[j], sim[i][j] >>}) = 1
               /\ \A k \in 1..Len(fn_result.value) :
                      \E i, j \in 1..Len(fn_documents) :
                          /\ i < j /\ ScoreAbove(sim[i][j], fn_threshold)
                          /\ fn_result.value[k] = << fn_paths[i], fn_paths[j], sim[i][j] >>

\* The files of the exact-only scan that obtained a fingerprint.
Fingerprinted == {p \in Range(enumerated) : Truthy(hash_file(p))}

\* C8: the groups find_duplicates returns are the fingerprint classes of two
\* or more files: files of equal fingerprint share a group, different groups
\* have different fingerprints, every group has at least two members, and a
\* file whose fingerprint no other file has is in no group.
C8_GroupsAreFingerprintClasses ==
    pc = "returned" =>
        /\ \A p, q \in Fingerprinted :
               (p # q /\ hash_file(p) = hash_file(q)) => SameGroup(p, q)
        /\ \A g, h \in 1..Len(groups) : g # h => groups[g][1] # groups[h][1]
        /\ \A g \in 1..Len(groups) : Cardinality(Range(groups[g][2])) >= 2
        /\ \A p \in Fingerprinted :
               (\A q \in Fingerprinted : q # p => hash_file(q) # hash_file(p))
                   => ~SameGroup(p, p)

\* hash_binary fails on the file.
Unreadable(path) == hash_binary(path) = None

\* The paths handed to find_duplicates_binary, without the unreadable ones.
ReadablePaths ==
    LET Readable(p) == ~Unreadable(p)
    IN  SelectSeq(binary_file_paths, Readable)

\* p has an entry in the map of digests.
InHashMap(p) == \E h \in 1..Len(hash_map) : p \in Range(hash_map[h][2])

\* C9: a file hash_binary cannot read gets no fingerprint and is in no group;
\* the scan goes on, every readable file is fingerprinted, and the map of
\* digests and the pairs made from it are what they would be had the
\* unreadable files not been in the scan.
C9_UnreadableFileLeftOut ==
    pc \in {"sort", "done"} =>
        /\ \A i \in 1..Len(binary_file_paths) :
               InHashMap(binary_file_paths[i]) <=> ~Unreadable(binary_file_paths[i])
        /\ \A h \in 1..Len(hash_map) : hash_map[h][1] # None
        /\ hash_map = HashBinaryAll(ReadablePaths, << >>)
        /\ pc = "sort" =>
               \E pairs \in {find_duplicates_binary(ReadablePaths)} :
                   /\ Len(pairs) <= Len(all_results)
                   /\ SubSeq(all_results, Len(all_results) - Len(pairs) + 1,
                             Len(all_results)) = pairs

\* C9's case: an unreadable file was among the files to hash, and the scan
\* ended with a report on the others.
C9_Witness ==
    /\ pc = "done"
    /\ \E i \in 1..Len(binary_file_paths) : Unreadable(binary_file_paths[i])
    /\ hash_map # << >>
    /\ report # << >>

\* load_documents takes the path for a text-bearing file, and extract_text
\* gives no text for it.
NoTextExtracted(path) == Lower(Suffix(path)) \in TextSuffixes /\ extract_text(path) = None

\* C10: a file with a recognised text extension for which extract_text yields
\* no text is in the binary list and not in the corpus, and no pair of the
\* fuzzy matching names it.
C10_NoTextMeansBinary ==
    \A i \in 1..Len(enumerated) :
        NoTextExtracted(enumerated[i]) =>
            /\ enumerated[i] \in Range(binary_file_paths)
            /\ enumerated[i] \notin Range(text_file_paths)
            /\ pc = "binary" =>
                   \A k \in 1..Len(all_results) :
                       enumerated[i] \notin {all_results[k][1], all_results[k][2]}

\* C10's case: a CAD-produced PDF, a vector-heavy PDF and an unparsable PDF
\* were all classified, and the scan ran to its end.
C10_Witness ==
    /\ pc = "done"
    /\ \A f \in {9, 15, 16} :
           /\ NoTextExtracted(PathOf(f))
           /\ PathOf(f) \in Range(binary_file_paths)

(***************************************************************************)
(* text_utils.extract_text called on its own, helper call by helper call.  *)
(***************************************************************************)
FilePath(f) == JoinPath(f.dir, f.name)

\* p.pdf in every condition the heuristics and pdf_text tell apart.
PdfFiles ==
    { [File(DirB, << 112, 46, 112, 100, 102 >>, << 37, 80, 68, 70 >>) EXCEPT
           !.readable = r, !.parses = pa, !.renders = re, !.extracts = e,
           !.producer = pr, !.creator = cr, !.vector_ops = v, !.body = TextAAAA] :
        r \in BOOLEAN, pa \in BOOLEAN, re \in BOOLEAN, e \in BOOLEAN,
        pr \in { << 87, 111, 114, 100 >>,
                 << 65, 117, 116, 111, 67, 65, 68, 32, 50, 48, 50, 48 >> },
        cr \in { << >>, << 82, 101, 118, 105, 116 >> },
        v \in {0, VectorThreshold, VectorThreshold + 1} }

ExtractInputs == PdfFiles \cup {Catalogue[f] : f \in FileIds}

InitExtract ==
    /\ ex_file \in ExtractInputs
    /\ ex_calls = << >>
    /\ ex_text = None
    /\ pc = "extract"
    /\ roots = [kind |-> "list", path |-> << >>, list |-> << >>]
    /\ fs = {}
    /\ drive_exists = FALSE
    /\ root_idx = 1
    /\ pending = << >>
    /\ enumerated = << >>
    /\ warnings = << >>
    /\ text_file_paths = << >>
    /\ documents = << >>
    /\ binary_file_paths = << >>
    /\ hash_map = << >>
    /\ hashed = << >>
    /\ all_results = << >>
    /\ report = << >>
    /\ groups = << >>
    /\ fn_paths = << >>
    /\ fn_documents = << >>
    /\ fn_threshold = << >>
    /\ fn_result = NoCall
    /\ text_data_in = << >>
    /\ cleaned_once = << >>
    /\ cleaned_twice = << >>

\* extract_text up to its test of the extension: a .txt, a .docx or any other
\* path is dealt with at once, a .pdf goes to the checks.
ExtractBegin ==
    /\ pc = "extract"
    /\ IF EndsWith(FilePath(ex_file), ExtPdf) /\ ~EndsWith(FilePath(ex_file), ExtTxt)
       THEN pc' = "cad_check" /\ ex_text' = ex_text
       ELSE pc' = "extracted" /\ ex_text' = ExtractText(FilePath(ex_file), ex_file)
    /\ UNCHANGED << roots, fs, drive_exists, root_idx, pending, enumerated, warnings, text_file_paths,
                    documents, binary_file_paths, hash_map, hashed, all_results, report,
                    groups, fn_paths, fn_documents, fn_threshold, fn_result,
                    ex_file, ex_calls, text_data_in, cleaned_once, cleaned_twice >>

\* The first check as it would be if its answer were not looked at.
CadCheckStepUnheeded ==
    /\ pc = "cad_check"
    /\ ex_calls' = Append(ex_calls, << "is_created_by_cad_software",
                                       CadSoftwareCheck(ex_file) >>)
    /\ pc' = "vector_check"
    /\ UNCHANGED << roots, fs, drive_exists, root_idx, pending, enumerated, warnings, text_file_paths,
                    documents, binary_file_paths, hash_map, hashed, all_results, report,
                    groups, fn_paths, fn_documents, fn_threshold, fn_result,
                    ex_file, ex_text, text_data_in, cleaned_once, cleaned_twice >>

\* if is_created_by_cad_software(path_str): return None
CadCheckStep ==
    /\ pc = "cad_check"
    /\ \E flagged \in {CadSoftwareCheck(ex_file)} :
           /\ ex_calls' = Append(ex_calls, << "is_created_by_cad_software", flagged >>)
           /\ pc' = IF flagged THEN "extracted" ELSE "vector_check"
    /\ UNCHANGED << roots, fs, drive_exists, root_idx, pending, enumerated, warnings, text_file_paths,
                    documents, binary_file_paths, hash_map, hashed, all_results, report,
                    groups, fn_paths, fn_documents, fn_threshold, fn_result,
                    ex_file, ex_text, text_data_in, cleaned_once, cleaned_twice >>

\* if is_complex_vector_file(path_str): return None
VectorCheckStep ==
    /\ pc = "vector_check"
    /\ \E flagged \in {VectorFileCheck(ex_file, VectorThreshold)} :
           /\ ex_calls' = Append(ex_calls, << "is_complex_vector_file", flagged >>)
           /\ pc' = IF flagged THEN "extracted" ELSE "pdf_text"
    /\ UNCHANGED << roots, fs, drive_exists, root_idx, pending, enumerated, warnings, text_file_paths,
                    documents, binary_file_paths, hash_map, hashed, all_results, report,
                    groups, fn_paths, fn_documents, fn_threshold, fn_result,
                    ex_file, ex_text, text_data_in, cleaned_once, cleaned_twice >>

\* return pdf_text(path_str), or None from the except clause around it.  The
\* call is logged with whether it returned.
PdfTextStep ==
    /\ pc = "pdf_text"
    /\ ex_calls' = Append(ex_calls, << "pdf_text", PdfText(ex_file) # None >>)
    /\ ex_text' = PdfText(ex_file)
    /\ pc' = "extracted"
    /\ UNCHANGED << roots, fs, drive_exists, root_idx, pending, enumerated, warnings, text_file_paths,
                    documents, binary_file_paths, hash_map, hashed, all_results, report,
                    groups, fn_paths, fn_documents, fn_threshold, fn_result,
                    ex_file, text_data_in, cleaned_once, cleaned_twice >>

NextExtract ==
    \/ ExtractBegin
    \/ CadCheckStep
    \/ VectorCheckStep
    \/ PdfTextStep

SpecExtract == InitExtract /\ [][NextExtract]_vars

\* extract_text is on a path that ends in .pdf (and not in .txt).
OnPdf == EndsWith(FilePath(ex_file), ExtPdf)

\* The helpers in the order extract_text calls them.
HelperOrder == << "is_created_by_cad_software", "is_complex_vector_file", "pdf_text" >>

\* C11: a PDF that a CAD heuristic cannot open or parse is reported as flagged
\* by that heuristic, and extract_text returns None for it without calling
\* pdf_text.
C11_UnparsablePdfFlagged ==
    (pc = "extracted" /\ OnPdf) =>
        /\ CadCheckRaises(ex_file) =>
               /\ ex_calls = << << "is_created_by_cad_software", TRUE >> >>
               /\ ex_text = None
        /\ (~CadSoftwareCheck(ex_file) /\ VectorCheckRaises(ex_file)) =>
               /\ ex_calls = << << "is_created_by_cad_software", FALSE >>,
                                << "is_complex_vector_file", TRUE >> >>
               /\ ex_text = None

\* C11's case: the metadata of a PDF could be read and showed no CAD program,
\* its first page could not be processed, and its text could have been
\* extracted.
C11_Witness ==
    /\ pc = "extracted" /\ OnPdf
    /\ ~CadSoftwareCheck(ex_file)
    /\ ex_file.readable /\ ex_file.parses /\ ~ex_file.renders /\ ex_file.extracts
    /\ Len(ex_calls) = 2
    /\ ex_text = None

\* C12: on a corpus of 0 documents or 1 document find_duplicates_tfidf
\* returns the empty list: it raises nothing and does not call the
\* vectorizer, so no vocabulary is built and no similarity computed.
C12_SmallCorpusReturnsEmpty ==
    (pc # "call" /\ Len(fn_documents) < 2) =>
        /\ pc = "returned"
        /\ ~fn_result.error
        /\ fn_result.value = << >>
        /\ ~fn_result.vectorized

\* C12's case: the call returned on a corpus of one document, a document in
\* which the vectorizer finds no token.
C12_Witness ==
    /\ pc = "returned"
    /\ fn_documents = << TextLetters >>
    /\ fn_result.value = << >>

(***************************************************************************)
(* text_utils.text_clean called on its own, and again on what it returned. *)
(***************************************************************************)
\* The longest text handed to text_clean.
MaxLen == 3

\* TAB, SPACE, NO-BREAK SPACE, A, a, E WITH ACUTE, LIGATURE IJ, COMBINING
\* ACUTE, TRADE MARK SIGN
CleanAlphabet == {9, 32, 160, 65, 97, 201, 306, 769, 8482}

\* None, the empty text and every text of up to MaxLen code points.
CleanInputs == {None} \cup UNION {[1..n -> CleanAlphabet] : n \in 0..MaxLen}

InitClean ==
    /\ text_data_in \in CleanInputs
    /\ cleaned_once = << >>
    /\ cleaned_twice = << >>
    /\ pc = "clean"
    /\ roots = [kind |-> "list", path |-> << >>, list |-> << >>]
    /\ fs = {}
    /\ drive_exists = FALSE
    /\ root_idx = 1
    /\ pending = << >>
    /\ enumerated = << >>
    /\ warnings = << >>
    /\ text_file_paths = << >>
    /\ documents = << >>
    /\ binary_file_paths = << >>
    /\ hash_map = << >>
    /\ hashed = << >>
    /\ all_results = << >>
    /\ report = << >>
    /\ groups = << >>
    /\ fn_paths = << >>
    /\ fn_documents = << >>
    /\ fn_threshold = << >>
    /\ fn_result = NoCall
    /\ ex_file = NoFile
    /\ ex_calls = << >>
    /\ ex_text = None

\* cleaned = text_clean(text_data)
CleanOnce ==
    /\ pc = "clean"
    /\ cleaned_once' = text_clean(text_data_in)
    /\ pc' = "cleaned"
    /\ UNCHANGED << roots, fs, drive_exists, root_idx, pending, enumerated, warnings, text_file_paths,
                    documents, binary_file_paths, hash_map, hashed, all_results, report,
                    groups, fn_paths, fn_documents, fn_threshold, fn_result,
                    ex_file, ex_calls, ex_text, text_data_in, cleaned_twice >>

\* text_clean(cleaned)
CleanAgain ==
    /\ pc = "cleaned"
    /\ cleaned_twice' = text_clean(cleaned_once)
    /\ pc' = "recleaned"
    /\ UNCHANGED << roots, fs, drive_exists, root_idx, pending, enumerated, warnings, text_file_paths,
                    documents, binary_file_paths, hash_map, hashed, all_results, report,
                    groups, fn_paths, fn_documents, fn_threshold, fn_result,
                    ex_file, ex_calls, ex_text, text_data_in, cleaned_once >>

NextClean ==
    \/ CleanOnce
    \/ CleanAgain

SpecClean == InitClean /\ [][NextClean]_vars

\* C13: text_clean is idempotent: cleaning a cleaned text gives the cleaned
\* text, for every input, the empty text and None included.
C13_CleanIdempotent ==
    pc = "recleaned" => cleaned_twice = cleaned_once

\* C13's case: a text that the decomposition, the lowercasing and the
\* whitespace steps all change (NO-BREAK SPACE, TRADE MARK SIGN, TAB) was
\* cleaned to "tm" and cleaned again.
C13_Witness ==
    /\ pc = "recleaned"
    /\ text_data_in = << 160, 8482, 9 >>
    /\ cleaned_once = << 116, 109 >>

\* C14: in the hybrid scan nothing is fingerprinted and nothing is scored
\* while load_documents runs; once a matching stage has started, every file
\* under every root has been enumerated and classified.
C14_MatchingAfterClassification ==
    /\ pc = "load" => (hashed = << >> /\ hash_map = << >> /\ all_results = << >>)
    /\ Loaded =>
           /\ WalkExhausted
           /\ enumerated = ExpectedStream
           /\ \A i \in 1..Len(enumerated) :
                  /\ Classify(enumerated[i]) = "text"
                         <=> enumerated[i] \in Range(text_file_paths)
                  /\ Classify(enumerated[i]) = "binary"
                         <=> enumerated[i] \in Range(binary_file_paths)

\* C14's case: two roots were walked, a corpus of two or more texts was
\* scored and binary files were hashed.
C14_Witness ==
    /\ pc = "sort"
    /\ Len(RootList(roots)) = 2
    /\ Len(text_file_paths) >= 2
    /\ hashed # << >>
    /\ all_results # << >>

\* C15: on a .pdf path extract_text calls its helpers in the order metadata
\* check, vector probe, pdf_text; the vector probe is called only after the
\* metadata check did not flag the file, pdf_text only after neither check
\* flagged it, and a check that flags the file ends the call with None.  On
\* any other path no check is called.
C15_ChecksBeforeExtraction ==
    /\ ~OnPdf => ex_calls = << >>
    /\ OnPdf =>
           /\ Len(ex_calls) <= 3
           /\ \A i \in 1..Len(ex_calls) : ex_calls[i][1] = HelperOrder[i]
           /\ \A i \in 1..Len(ex_calls) : i < Len(ex_calls) => ~ex_calls[i][2]
           /\ Len(ex_calls) >= 1 => ex_calls[1][2] = CadSoftwareCheck(ex_file)
           /\ Len(ex_calls) >= 2 => ex_calls[2][2] = VectorFileCheck(ex_file, VectorThreshold)
           /\ pc = "extracted" =>
                  /\ Len(ex_calls) >= 1
                  /\ Len(ex_calls) < 3 => (ex_calls[Len(ex_calls)][2] /\ ex_text = None)
                  /\ Len(ex_calls) = 3 => ex_text = PdfText(ex_file)

\* C15's case: the metadata check flagged a PDF whose first page has more
\* drawing instructions than the threshold and whose text could have been
\* extracted; the call ended after that one check.
C15_Witness ==
    /\ pc = "extracted" /\ OnPdf
    /\ ex_calls = << << "is_created_by_cad_software", TRUE >> >>
    /\ ex_file.readable /\ ex_file.parses /\ ex_file.renders /\ ex_file.extracts
    /\ ex_file.vector_ops > VectorThreshold
    /\ ex_text = None

\* C16: a file whose normalised text has exactly 50 characters passes
\* load_documents' minimum-content gate: its path is in the corpus.
C16_LengthFiftyIsTextEligible ==
    Loaded =>
        \A i \in 1..Len(enumerated) :
            ( /\ Lower(Suffix(enumerated[i])) \in TextSuffixes
              /\ Truthy(extract_text(enumerated[i]))
              /\ Len(text_clean(extract_text(enumerated[i]))) = MinContentLen )
                => enumerated[i] \in Range(text_file_paths)


====
